---- MODULE Spec2Model ----
(***************************************************************************)
(* hyperdashi-server: label allocation (ItemService::generate_label_ids),  *)
(* item / container creation and the loan life cycle (LoanService), as     *)
(* state machines over the database tables the services read and write.    *)
(*                                                                         *)
(* Every request is an independently scheduled async task; a task is       *)
(* suspended at each database round trip, so one action is one SQL         *)
(* statement together with the local computation that follows it up to the *)
(* next statement.  A trailing read-back (get_item / get_loan /            *)
(* get_container) changes no table and is taken with the last write.       *)
(***************************************************************************)
EXTENDS Integers, Sequences, FiniteSets, TLC

VARIABLES
    sequential,     \* TRUE when the caller sends one request at a time
    dialect,        \* DatabasePool variant chosen at startup
    current_value,  \* label_counter.current_value (committed)
    items,          \* items table: id -> row
    nextItemId,     \* items.id sequence
    containers,     \* containers table: id (label) -> row
    cable_colors,   \* cable_colors table: id -> row
    loans,          \* loans table: loans[id] is the row with that id
    calls,          \* per task: the service call in progress and its locals
    history,        \* generate_label_ids calls that have returned, in order
    started,        \* number of service calls started so far
    response,       \* what the service call that returned last returned
    clock           \* Utc::now()

vars == <<sequential, dialect, current_value, items, nextItemId, containers,
          cable_colors, loans,
          calls, history, started, response, clock>>

----------------------------------------------------------------------------
(* Bounds of the model *)

NumProcs == 2
MaxCalls == 3
MaxQuantity == 2
MaxItems == 1
MaxLoans == 2
MaxClock == 1
MaxContainers == 2
MaxColors == 1
MaxRows == 2
WordBits == 3

Procs == 1..NumProcs

(* Program constants *)

MaxLabelValue == 1679615
Radix == 36
LabelWidth == 4

----------------------------------------------------------------------------
(* Option<T> *)

None == [some |-> FALSE]
Some(v) == [some |-> TRUE, v |-> v]
UnwrapOr(o, d) == IF o.some THEN o.v ELSE d
Coalesce(o, old) == IF o.some THEN o.v ELSE old

Idle == [op |-> "none", pc |-> "idle"]
AllIdle == \A p \in Procs : calls[p] = Idle
MayStart(p) ==
    /\ calls[p] = Idle
    /\ started < MaxCalls
    /\ sequential => AllIdle

----------------------------------------------------------------------------
(* Base-36 rendering of a label number *)

LowerDigits ==
    <<"0","1","2","3","4","5","6","7","8","9",
      "a","b","c","d","e","f","g","h","i","j","k","l","m",
      "n","o","p","q","r","s","t","u","v","w","x","y","z">>

UpperDigits ==
    <<"0","1","2","3","4","5","6","7","8","9",
      "A","B","C","D","E","F","G","H","I","J","K","L","M",
      "N","O","P","Q","R","S","T","U","V","W","X","Y","Z">>

RECURSIVE radix_36(_)
radix_36(n) ==
    IF n < Radix THEN <<LowerDigits[n + 1]>>
    ELSE radix_36(n \div Radix) \o <<LowerDigits[(n % Radix) + 1]>>

to_uppercase(s) ==
    [i \in 1..Len(s) |->
        UpperDigits[CHOOSE k \in 1..Len(LowerDigits) : LowerDigits[k] = s[i]]]

PadZeroLeft(s) ==
    IF Len(s) >= LabelWidth THEN s
    ELSE [i \in 1..(LabelWidth - Len(s)) |-> "0"] \o s

(* format!("{:0>4}", radix_36(new_number as u32).to_string().to_uppercase()) *)
(* The cast to u32 is the identity on 0..MaxLabelValue, the only numbers   *)
(* that pass the range check.                                              *)
FormatLabel(new_number) == PadZeroLeft(to_uppercase(radix_36(new_number)))

LabelIds_fromCurrent(cur, quantity) ==
    [i \in 1..quantity |-> FormatLabel(cur + i - 1)]

LabelIds(cur, quantity) ==
    [i \in 1..quantity |-> FormatLabel(cur + i)]

ExceedsLabelSpace_offByOne(cur, quantity) == cur + quantity >= MaxLabelValue

ExceedsLabelSpace(cur, quantity) == cur + quantity > MaxLabelValue

----------------------------------------------------------------------------
(* Inputs of the requests *)

InitCounters == {0, 34, MaxLabelValue - 2}
LabelInputs == {FormatLabel(1), FormatLabel(36)}
NameInputs == {"renamed"}
StorageTypeInputs == {None, Some("container")}
ContainerIdInputs == {None, Some(FormatLabel(1))}
FlagInputs == {None, Some(TRUE), Some(FALSE)}

Times == 0..MaxClock
RemarksInputs == {None, Some("note")}

CreateLoanRequests ==
    [item_id : 1..(MaxItems + 1), student_number : {"s1"}, remarks : {None}]

ReturnLoanRequests ==
    [return_date : {None} \cup {Some(t) : t \in Times}, remarks : RemarksInputs]

CreateContainerRequests ==
    {[name |-> "box", location |-> "room", image_url |-> None]}

CreateItemRequests ==
    [name : {"item"}, label_id : LabelInputs,
     storage_type : StorageTypeInputs, container_id : ContainerIdInputs]

UpdateItemRequests ==
    [name : {None} \cup {Some(n) : n \in NameInputs},
     label_id : {None} \cup {Some(l) : l \in LabelInputs},
     storage_type : StorageTypeInputs,
     container_id : ContainerIdInputs,
     is_on_loan : FlagInputs,
     is_disposed : FlagInputs]

UpdateContainerRequests ==
    [name : {None, Some("crate")},
     location : {None},
     image_url : {None, Some("box.png")},
     is_disposed : FlagInputs]

UpdateCableColorRequests ==
    [name : {None, Some("crimson")}, hex_code : {None, Some("#FF0000")}]

(* The requests a specification draws from: those that supply no other     *)
(* field than the ones named.                                              *)
Supplied(req) == {f \in DOMAIN req : req[f] # None}
CreateItemRequestsWith(fields) ==
    {req \in CreateItemRequests :
        \A f \in {"storage_type", "container_id"} \ fields : req[f] = None}
UpdateItemRequestsWith(fields) ==
    {req \in UpdateItemRequests : Supplied(req) \subseteq fields}

----------------------------------------------------------------------------
(* Locks of the label_counter row.  Postgres (READ COMMITTED): a plain     *)
(* SELECT takes no lock and sees the committed value; an UPDATE waits for  *)
(* the row lock of an uncommitted UPDATE.  SQLite (deferred BEGIN,         *)
(* rollback journal): SELECT takes SHARED, UPDATE needs RESERVED and is    *)
(* refused with SQLITE_BUSY when another connection holds it, COMMIT       *)
(* needs EXCLUSIVE, i.e. no other SHARED holder, and gives up with         *)
(* SQLITE_BUSY once the busy timeout has passed.                           *)

InTx(q) == calls[q].op \in {"generate_label_ids", "create_container"}
HoldsShared(q) == InTx(q) /\ calls[q].pc \in {"update", "commit"}
HoldsWrite(q) == InTx(q) /\ calls[q].pc = "commit"
OtherWriter(p) == \E q \in Procs \ {p} : HoldsWrite(q)
OtherReader(p) == \E q \in Procs \ {p} : HoldsShared(q)

(* The record of a generate_label_ids call that has returned *)
Returned(p, cur, ids, res) ==
    [op |-> calls[p].op, quantity |-> calls[p].quantity, read |-> cur,
     label_ids |-> ids, result |-> res]

(* AppResult of a service call, as the caller sees it *)
(* seq numbers the returns, so that every return changes response.         *)
Response(op, arg, res) ==
    [seq |-> response.seq + 1, op |-> op, arg |-> arg, result |-> res]
ResponseOf(p, res) == Response(calls[p].op, calls[p].arg, res)
NoResponse == [seq |-> 0, op |-> "none", arg |-> 0, result |-> "none"]

----------------------------------------------------------------------------
(* ItemService::generate_label_ids *)

GenerateLabelIdsBegin(p) ==
    /\ MayStart(p)
    /\ \E quantity \in 1..MaxQuantity :
         calls' = [calls EXCEPT ![p] =
                     [op |-> "generate_label_ids", pc |-> "select",
                      arg |-> quantity,
                      quantity |-> quantity]]
    /\ started' = started + 1
    /\ UNCHANGED <<cable_colors, sequential, dialect, current_value, items, nextItemId, containers,
                   loans, history, response, clock>>

SelectCounter(p) ==
    /\ InTx(p) /\ calls[p].pc = "select"
    /\ LET cur == current_value
           quantity == calls[p].quantity
       IN IF ExceedsLabelSpace(cur, quantity)
          THEN /\ calls' = [calls EXCEPT ![p] = Idle]
               /\ history' = Append(history, Returned(p, cur, <<>>, "BadRequest"))
               /\ response' = ResponseOf(p, "BadRequest")
          ELSE /\ calls' = [calls EXCEPT ![p] =
                             [op |-> calls[p].op, pc |-> "update",
                              arg |-> calls[p].arg,
                              quantity |-> quantity,
                              current_value |-> cur,
                              label_ids |-> LabelIds(cur, quantity),
                              new_counter_value |-> cur + quantity]]
               /\ UNCHANGED <<history, response>>
    /\ UNCHANGED <<cable_colors, sequential, dialect, current_value, items, nextItemId, containers,
                   loans, started, clock>>

UpdateCounter(p) ==
    /\ InTx(p) /\ calls[p].pc = "update"
    /\ dialect = "postgres" => ~OtherWriter(p)
    /\ IF dialect = "sqlite" /\ OtherWriter(p)
       THEN /\ calls' = [calls EXCEPT ![p] = Idle]
            /\ history' = Append(history,
                  Returned(p, calls[p].current_value, <<>>, "DatabaseError"))
            /\ response' = ResponseOf(p, "DatabaseError")
       ELSE /\ calls' = [calls EXCEPT ![p].pc = "commit"]
            /\ UNCHANGED <<history, response>>
    /\ UNCHANGED <<cable_colors, sequential, dialect, current_value, items, nextItemId, containers,
                   loans, started, clock>>

AfterCommit(c) ==
    IF c.op = "create_container"
    THEN [op |-> "create_container", pc |-> "insert", arg |-> c.arg,
          quantity |-> c.quantity, label_ids |-> c.label_ids, now |-> clock]
    ELSE Idle

CommitCounter(p) ==
    /\ InTx(p) /\ calls[p].pc = "commit"
    /\ dialect = "sqlite" => ~OtherReader(p)
    /\ current_value' = calls[p].new_counter_value
    /\ history' = Append(history,
          Returned(p, calls[p].current_value, calls[p].label_ids, "Ok"))
    /\ calls' = [calls EXCEPT ![p] = AfterCommit(calls[p])]
    /\ response' = IF calls[p].op = "generate_label_ids"
                   THEN ResponseOf(p, "Ok") ELSE response
    /\ UNCHANGED <<cable_colors, sequential, dialect, items, nextItemId, containers, loans, started, clock>>

CommitBusy(p) ==
    /\ InTx(p) /\ calls[p].pc = "commit"
    /\ dialect = "sqlite" /\ OtherReader(p)
    /\ calls' = [calls EXCEPT ![p] = Idle]
    /\ history' = Append(history,
          Returned(p, calls[p].current_value, <<>>, "DatabaseError"))
    /\ response' = ResponseOf(p, "DatabaseError")
    /\ UNCHANGED <<cable_colors, sequential, dialect, current_value, items, nextItemId, containers,
                   loans, started, clock>>

----------------------------------------------------------------------------
(* handlers::labels::generate_labels: the reply made of the result of      *)
(* generate_label_ids.  Every error of the service is turned into          *)
(* AppError::InternalServer by map_err before it is returned.              *)
generate_labels(result) ==
    IF result = "Ok" THEN "Ok" ELSE "InternalServer"

(* The reply of the generate_labels handler to the call that returned last *)
GenerateLabelsReply == generate_labels(response.result)

----------------------------------------------------------------------------
(* ContainerService::create_container: generate_label_ids(1), then INSERT. *)
(* containers.id is the table's key: a second row with the same id is      *)
(* refused by the database.                                                *)

CreateContainerBegin(p) ==
    /\ MayStart(p)
    /\ \E request \in CreateContainerRequests :
         calls' = [calls EXCEPT ![p] =
                     [op |-> "create_container", pc |-> "select",
                      arg |-> request, quantity |-> 1]]
    /\ started' = started + 1
    /\ UNCHANGED <<cable_colors, sequential, dialect, current_value, items, nextItemId, containers,
                   loans, history, response, clock>>

NewContainer(request, now) ==
    [name |-> request.name, location |-> request.location,
     image_url |-> request.image_url,
     is_disposed |-> FALSE, created_at |-> now, updated_at |-> now]

CreateContainerInsert(p) ==
    /\ calls[p].op = "create_container" /\ calls[p].pc = "insert"
    /\ LET container_id == Head(calls[p].label_ids)
       IN IF container_id \in DOMAIN containers
          THEN /\ UNCHANGED containers
               /\ response' = ResponseOf(p, "DatabaseError")
          ELSE /\ containers' = containers @@
                     (container_id :> NewContainer(calls[p].arg, calls[p].now))
               /\ response' = ResponseOf(p, "Ok")
    /\ calls' = [calls EXCEPT ![p] = Idle]
    /\ UNCHANGED <<cable_colors, sequential, dialect, current_value, items, nextItemId, loans, history,
                   started, clock>>

----------------------------------------------------------------------------
(* ContainerService: delete_container, bulk_delete_containers,             *)
(* bulk_update_disposed_status.  The guards count the items stored in the  *)
(* containers; delete_container's Postgres query counts the disposed items *)
(* too, every other query only those not disposed.                         *)

ContainerIds == {FormatLabel(k) : k \in 1..(MaxContainers + 1)}
Batches == SUBSET ContainerIds

ItemsInContainers_location(ids, with_disposed) ==
    {i \in DOMAIN items :
        /\ items[i].container_id.some
        /\ items[i].container_id.v \in ids
        /\ items[i].storage_type = "location"
        /\ with_disposed \/ ~items[i].is_disposed}

ItemsInContainers(ids, with_disposed) ==
    {i \in DOMAIN items :
        /\ items[i].container_id.some
        /\ items[i].container_id.v \in ids
        /\ items[i].storage_type = "container"
        /\ with_disposed \/ ~items[i].is_disposed}

DeleteContainerCount(p) ==
    /\ MayStart(p)
    /\ \E id \in ContainerIds :
         IF ItemsInContainers({id}, dialect = "postgres") # {}
         THEN /\ response' = Response("delete_container", id, "BadRequest")
              /\ UNCHANGED calls
         ELSE /\ calls' = [calls EXCEPT ![p] =
                             [op |-> "delete_container", pc |-> "delete",
                              arg |-> id]]
              /\ UNCHANGED response
    /\ started' = started + 1
    /\ UNCHANGED <<cable_colors, sequential, dialect, current_value, items, nextItemId, containers,
                   loans, history, clock>>

DeleteContainerDelete(p) ==
    /\ calls[p].op = "delete_container" /\ calls[p].pc = "delete"
    /\ LET id == calls[p].arg
       IN IF id \in DOMAIN containers
          THEN /\ containers' = [c \in DOMAIN containers \ {id} |-> containers[c]]
               /\ response' = ResponseOf(p, "Ok")
          ELSE /\ UNCHANGED containers
               /\ response' = ResponseOf(p, "NotFound")
    /\ calls' = [calls EXCEPT ![p] = Idle]
    /\ UNCHANGED <<cable_colors, sequential, dialect, current_value, items, nextItemId, loans,
                   history, started, clock>>

check_containers_have_items(ids) ==
    IF ids = {} THEN FALSE ELSE ItemsInContainers(ids, FALSE) # {}

BulkDeleteContainersCheck(p) ==
    /\ MayStart(p)
    /\ \E ids \in Batches :
         IF ids = {}
         THEN /\ response' = Response("bulk_delete_containers", ids, "Ok")
              /\ UNCHANGED calls
         ELSE IF check_containers_have_items(ids)
         THEN /\ response' = Response("bulk_delete_containers", ids, "BadRequest")
              /\ UNCHANGED calls
         ELSE /\ calls' = [calls EXCEPT ![p] =
                             [op |-> "bulk_delete_containers", pc |-> "delete",
                              arg |-> ids]]
              /\ UNCHANGED response
    /\ started' = started + 1
    /\ UNCHANGED <<cable_colors, sequential, dialect, current_value, items, nextItemId, containers,
                   loans, history, clock>>

BulkDeleteContainersDelete(p) ==
    /\ calls[p].op = "bulk_delete_containers" /\ calls[p].pc = "delete"
    /\ containers' = [c \in DOMAIN containers \ calls[p].arg |-> containers[c]]
    /\ response' = ResponseOf(p, "Ok")
    /\ calls' = [calls EXCEPT ![p] = Idle]
    /\ UNCHANGED <<cable_colors, sequential, dialect, current_value, items, nextItemId, loans,
                   history, started, clock>>

BulkUpdateDisposedStatus(p) ==
    /\ MayStart(p)
    /\ \E ids \in Batches, is_disposed \in BOOLEAN :
         /\ containers' = [c \in DOMAIN containers |->
                             IF c \in ids
                             THEN [containers[c] EXCEPT !.is_disposed = is_disposed,
                                                        !.updated_at = clock]
                             ELSE containers[c]]
         /\ response' = Response("bulk_update_disposed_status", ids, "Ok")
    /\ started' = started + 1
    /\ UNCHANGED <<cable_colors, sequential, dialect, current_value, items, nextItemId, loans,
                   calls, history, clock>>

----------------------------------------------------------------------------
(* ContainerService::update_container: the SET list is built from the      *)
(* fields supplied and refused when empty; one UPDATE.  The Postgres       *)
(* branch lists image_url before is_disposed in the SET list and binds     *)
(* is_disposed before image_url: with both supplied each parameter gets    *)
(* the other's value, of the wrong type, and the statement is refused.     *)

UpdatedContainer(row, request, now) ==
    [row EXCEPT !.name = Coalesce(request.name, @),
                !.location = Coalesce(request.location, @),
                !.image_url = IF request.image_url.some
                              THEN request.image_url ELSE @,
                !.is_disposed = Coalesce(request.is_disposed, @),
                !.updated_at = now]

(* The SET list update_container builds: one "column = placeholder" for   *)
(* each supplied field, in this order on both dialects, then updated_at,   *)
(* and the id of the WHERE clause                                          *)
SetColumns == <<"name", "description", "location", "image_url", "is_disposed">>

SetList(supplied) ==
    SelectSeq(SetColumns, LAMBDA f : f \in supplied) \o <<"updated_at", "id">>

(* The fields whose values are bound, in the order of the bind calls: the  *)
(* Postgres branch binds is_disposed before image_url, the SQLite branch   *)
(* pushes its params next to each SET entry                                *)
BindColumns(d) ==
    IF d = "postgres"
    THEN <<"name", "description", "location", "is_disposed", "image_url">>
    ELSE SetColumns

BindList(d, supplied) ==
    SelectSeq(BindColumns(d), LAMBDA f : f \in supplied) \o <<"updated_at", "id">>

BindsCrossed(request) ==
    BindList(dialect, Supplied(request)) # SetList(Supplied(request))

UpdateContainerResult(id, request) ==
    IF Supplied(request) = {} THEN "BadRequest"
    ELSE IF BindsCrossed(request) THEN "DatabaseError"
    ELSE IF id \notin DOMAIN containers THEN "NotFound"
    ELSE "Ok"

UpdateContainer(p) ==
    /\ MayStart(p)
    /\ \E id \in ContainerIds, request \in UpdateContainerRequests :
         /\ response' = Response("update_container",
                                  [id |-> id, req |-> request],
                                  UpdateContainerResult(id, request))
         /\ containers' =
               IF UpdateContainerResult(id, request) = "Ok"
               THEN [containers EXCEPT ![id] = UpdatedContainer(@, request, clock)]
               ELSE containers
    /\ started' = started + 1
    /\ UNCHANGED <<cable_colors, sequential, dialect, current_value, items, nextItemId,
                   loans, calls, history, clock>>

----------------------------------------------------------------------------
(* CableColorService::update_cable_color: get_cable_color, then the UPDATE *)

NewCableColor(req, now) ==
    [name |-> req.name, hex_code |-> req.hex_code,
     created_at |-> now, updated_at |-> now]

UpdatedCableColor(row, req, now) ==
    [row EXCEPT !.name = Coalesce(req.name, @),
                !.hex_code = IF req.hex_code.some THEN req.hex_code ELSE @,
                !.updated_at = now]

UpdateCableColorGet(p) ==
    /\ MayStart(p)
    /\ \E id \in 1..(MaxColors + 1), req \in UpdateCableColorRequests :
         IF id \in DOMAIN cable_colors
         THEN /\ calls' = [calls EXCEPT ![p] =
                             [op |-> "update_cable_color", pc |-> "update",
                              arg |-> id, req |-> req, now |-> clock]]
              /\ UNCHANGED response
         ELSE /\ UNCHANGED calls
              /\ response' = Response("update_cable_color", id, "NotFound")
    /\ started' = started + 1
    /\ UNCHANGED <<sequential, dialect, current_value, items, nextItemId,
                   containers, cable_colors, loans, history, clock>>

UpdateCableColorUpdate(p) ==
    /\ calls[p].op = "update_cable_color" /\ calls[p].pc = "update"
    /\ LET id == calls[p].arg
       IN IF id \in DOMAIN cable_colors
          THEN /\ cable_colors' = [cable_colors EXCEPT ![id] =
                      UpdatedCableColor(@, calls[p].req, calls[p].now)]
               /\ response' = ResponseOf(p, "Ok")
          ELSE /\ UNCHANGED cable_colors
               /\ response' = ResponseOf(p, "NotFound")
    /\ calls' = [calls EXCEPT ![p] = Idle]
    /\ UNCHANGED <<sequential, dialect, current_value, items, nextItemId,
                   containers, loans, history, started, clock>>

----------------------------------------------------------------------------
(* ItemService: create_item, update_item, dispose_item, undispose_item.    *)
(* create_item, dispose_item and undispose_item are one writing statement  *)
(* each; update_item is get_item, then the UPDATE.                         *)

NewItem(req, now) ==
    [name |-> req.name,
     label_id |-> req.label_id,
     storage_type |-> UnwrapOr(req.storage_type, "location"),
     container_id |-> req.container_id,
     is_on_loan |-> FALSE,
     is_disposed |-> FALSE,
     created_at |-> now,
     updated_at |-> now]

CreateItem(p, requests) ==
    /\ MayStart(p)
    /\ nextItemId <= MaxItems
    /\ \E req \in requests :
         items' = items @@ (nextItemId :> NewItem(req, clock))
    /\ nextItemId' = nextItemId + 1
    /\ started' = started + 1
    /\ response' = Response("create_item", nextItemId, "Ok")
    /\ UNCHANGED <<cable_colors, sequential, dialect, current_value, containers, loans, calls, history,
                   clock>>

UpdatedItem_flags(row, req, now) ==
    [row EXCEPT !.name = Coalesce(req.name, @),
                !.label_id = Coalesce(req.label_id, @),
                !.storage_type = Coalesce(req.storage_type, @),
                !.container_id = IF req.container_id.some
                                 THEN req.container_id ELSE @,
                !.is_on_loan = Coalesce(req.is_on_loan, @),
                !.is_disposed = Coalesce(req.is_disposed, @),
                !.updated_at = now]

UpdatedItem(row, req, now) ==
    [row EXCEPT !.name = Coalesce(req.name, @),
                !.label_id = Coalesce(req.label_id, @),
                !.storage_type = Coalesce(req.storage_type, @),
                !.container_id = IF req.container_id.some
                                 THEN req.container_id ELSE @,
                !.updated_at = now]

UpdateItemGetItem(p, requests) ==
    /\ MayStart(p)
    /\ \E id \in 1..(MaxItems + 1), req \in requests :
         IF id \in DOMAIN items
         THEN /\ calls' = [calls EXCEPT ![p] =
                             [op |-> "update_item", pc |-> "update",
                              arg |-> id, req |-> req, now |-> clock]]
              /\ UNCHANGED response
         ELSE /\ UNCHANGED calls
              /\ response' = Response("update_item", id, "NotFound")
    /\ started' = started + 1
    /\ UNCHANGED <<cable_colors, sequential, dialect, current_value, items, nextItemId,
                   containers, loans, history, clock>>

UpdateItemUpdate(p) ==
    /\ calls[p].op = "update_item" /\ calls[p].pc = "update"
    /\ LET id == calls[p].arg
       IN IF id \in DOMAIN items
          THEN /\ items' = [items EXCEPT ![id] =
                               UpdatedItem(@, calls[p].req, calls[p].now)]
               /\ response' = ResponseOf(p, "Ok")
          ELSE /\ UNCHANGED items
               /\ response' = ResponseOf(p, "NotFound")
    /\ calls' = [calls EXCEPT ![p] = Idle]
    /\ UNCHANGED <<cable_colors, sequential, dialect, current_value, nextItemId,
                   containers, loans, history, started, clock>>

(* UPDATE items SET is_disposed = value, updated_at = now WHERE id = id *)
WithDisposed_offLoan(row, value, now) ==
    [row EXCEPT !.is_disposed = value, !.is_on_loan = FALSE, !.updated_at = now]

WithDisposed(row, value, now) ==
    [row EXCEPT !.is_disposed = value, !.updated_at = now]

SetDisposed(p, op, value) ==
    /\ MayStart(p)
    /\ \E id \in 1..(MaxItems + 1) :
         IF id \in DOMAIN items
         THEN /\ items' = [items EXCEPT
                             ![id] = WithDisposed(items[id], value, clock)]
              /\ response' = Response(op, id, "Ok")
         ELSE /\ UNCHANGED items
              /\ response' = Response(op, id, "NotFound")
    /\ started' = started + 1
    /\ UNCHANGED <<cable_colors, sequential, dialect, current_value, nextItemId, containers, loans,
                   calls, history, clock>>

DisposeItem(p) == SetDisposed(p, "dispose_item", TRUE)

UndisposeItem(p) == SetDisposed(p, "undispose_item", FALSE)

----------------------------------------------------------------------------
(* ItemService::delete_item: get_item, COUNT of the active loans, DELETE *)

ActiveLoans(item_id) ==
    {l \in 1..Len(loans) : loans[l].item_id = item_id /\ ~loans[l].return_date.some}

CountActiveLoans_zero(item_id) == 0

CountActiveLoans(item_id) == Cardinality(ActiveLoans(item_id))

DeleteItemGetItem(p) ==
    /\ MayStart(p)
    /\ \E id \in 1..(MaxItems + 1) :
         IF id \notin DOMAIN items
         THEN /\ response' = Response("delete_item", id, "NotFound")
              /\ UNCHANGED calls
         ELSE IF items[id].is_on_loan
         THEN /\ response' = Response("delete_item", id, "BadRequest")
              /\ UNCHANGED calls
         ELSE /\ calls' = [calls EXCEPT ![p] =
                             [op |-> "delete_item", pc |-> "count",
                              arg |-> id]]
              /\ UNCHANGED response
    /\ started' = started + 1
    /\ UNCHANGED <<cable_colors, sequential, dialect, current_value, items, nextItemId, containers,
                   loans, history, clock>>

DeleteItemCountLoans(p) ==
    /\ calls[p].op = "delete_item" /\ calls[p].pc = "count"
    /\ IF CountActiveLoans(calls[p].arg) > 0
       THEN /\ response' = ResponseOf(p, "BadRequest")
            /\ calls' = [calls EXCEPT ![p] = Idle]
       ELSE /\ calls' = [calls EXCEPT ![p].pc = "delete"]
            /\ UNCHANGED response
    /\ UNCHANGED <<cable_colors, sequential, dialect, current_value, items, nextItemId, containers,
                   loans, history, started, clock>>

DeleteItemDelete(p) ==
    /\ calls[p].op = "delete_item" /\ calls[p].pc = "delete"
    /\ LET id == calls[p].arg
       IN IF id \in DOMAIN items
          THEN /\ items' = [i \in DOMAIN items \ {id} |-> items[i]]
               /\ response' = ResponseOf(p, "Ok")
          ELSE /\ UNCHANGED items
               /\ response' = ResponseOf(p, "NotFound")
    /\ calls' = [calls EXCEPT ![p] = Idle]
    /\ UNCHANGED <<cable_colors, sequential, dialect, current_value, nextItemId, containers, loans,
                   history, started, clock>>

----------------------------------------------------------------------------
(* LoanService::create_loan: SELECT the item and check it, INSERT the      *)
(* loan, UPDATE the item's is_on_loan.  Three statements on the pool, no   *)
(* transaction.                                                            *)

InsertingLoans == {q \in Procs : calls[q].op = "create_loan" /\ calls[q].pc = "insert"}

CreateLoanSelectItem(p) ==
    /\ MayStart(p)
    /\ Len(loans) + Cardinality(InsertingLoans) < MaxLoans
    /\ \E req \in CreateLoanRequests :
         LET id == req.item_id
         IN IF id \notin DOMAIN items
            THEN /\ response' = Response("create_loan", id, "NotFound")
                 /\ UNCHANGED calls
            ELSE IF items[id].is_on_loan
            THEN /\ response' = Response("create_loan", id, "BadRequest")
                 /\ UNCHANGED calls
            ELSE IF items[id].is_disposed
            THEN /\ response' = Response("create_loan", id, "BadRequest")
                 /\ UNCHANGED calls
            ELSE /\ calls' = [calls EXCEPT ![p] =
                                [op |-> "create_loan", pc |-> "insert",
                                 arg |-> id, req |-> req]]
                 /\ UNCHANGED response
    /\ started' = started + 1
    /\ UNCHANGED <<cable_colors, sequential, dialect, current_value, items, nextItemId, containers,
                   loans, history, clock>>

NewLoan(req, now) ==
    [item_id |-> req.item_id, student_number |-> req.student_number,
     return_date |-> None, remarks |-> req.remarks,
     created_at |-> now, updated_at |-> now]

CreateLoanInsert(p) ==
    /\ calls[p].op = "create_loan" /\ calls[p].pc = "insert"
    /\ loans' = Append(loans, NewLoan(calls[p].req, clock))
    /\ calls' = [calls EXCEPT ![p] =
                    [op |-> "create_loan", pc |-> "update_item",
                     arg |-> calls[p].arg,
                     loan_id |-> Len(loans) + 1, now |-> clock]]
    /\ UNCHANGED <<cable_colors, sequential, dialect, current_value, items, nextItemId, containers,
                   history, started, response, clock>>

SetOnLoan_keep(tbl, id, value, now) == tbl

SetOnLoan(tbl, id, value, now) ==
    IF id \in DOMAIN tbl
    THEN [tbl EXCEPT ![id].is_on_loan = value, ![id].updated_at = now]
    ELSE tbl

CreateLoanUpdateItem(p) ==
    /\ calls[p].op = "create_loan" /\ calls[p].pc = "update_item"
    /\ items' = SetOnLoan(items, calls[p].arg, TRUE, calls[p].now)
    /\ response' = ResponseOf(p, "Ok")
    /\ calls' = [calls EXCEPT ![p] = Idle]
    /\ UNCHANGED <<cable_colors, sequential, dialect, current_value, nextItemId, containers, loans,
                   history, started, clock>>

----------------------------------------------------------------------------
(* LoanService::return_loan: SELECT the loan and check it, UPDATE the      *)
(* loan, UPDATE the item's is_on_loan.                                     *)

ReturnDate_now(req, now) == now

ReturnDate(req, now) == UnwrapOr(req.return_date, now)

ReturnLoanSelect(p) ==
    /\ MayStart(p)
    /\ \E id \in 1..(MaxLoans + 1), req \in ReturnLoanRequests :
            IF id \notin 1..Len(loans)
            THEN /\ response' = Response("return_loan", id, "NotFound")
                 /\ UNCHANGED calls
            ELSE IF loans[id].return_date.some
            THEN /\ response' = Response("return_loan", id, "BadRequest")
                 /\ UNCHANGED calls
            ELSE /\ calls' = [calls EXCEPT ![p] =
                                [op |-> "return_loan", pc |-> "update_loan",
                                 arg |-> id, req |-> req,
                                 item_id |-> loans[id].item_id,
                                 return_date |-> ReturnDate(req, clock),
                                 now |-> clock]]
                 /\ UNCHANGED response
    /\ started' = started + 1
    /\ UNCHANGED <<cable_colors, sequential, dialect, current_value, items, nextItemId, containers,
                   loans, history, clock>>

ReturnLoanUpdateLoan(p) ==
    /\ calls[p].op = "return_loan" /\ calls[p].pc = "update_loan"
    /\ loans' = [loans EXCEPT
                    ![calls[p].arg].return_date = Some(calls[p].return_date),
                    ![calls[p].arg].remarks = calls[p].req.remarks,
                    ![calls[p].arg].updated_at = calls[p].now]
    /\ calls' = [calls EXCEPT ![p].pc = "update_item"]
    /\ UNCHANGED <<cable_colors, sequential, dialect, current_value, items, nextItemId, containers,
                   history, started, response, clock>>

ReturnLoanUpdateItem(p) ==
    /\ calls[p].op = "return_loan" /\ calls[p].pc = "update_item"
    /\ items' = SetOnLoan(items, calls[p].item_id, FALSE, calls[p].now)
    /\ response' = ResponseOf(p, "Ok")
    /\ calls' = [calls EXCEPT ![p] = Idle]
    /\ UNCHANGED <<cable_colors, sequential, dialect, current_value, nextItemId, containers, loans,
                   history, started, clock>>

(* create_loan and return_loan between their two writes: the second       *)
(* statement, UPDATE items SET is_on_loan, is awaited with `?` outside any *)
(* transaction, so when it fails (or the request is dropped while it is    *)
(* awaited) the call ends there with the error; nothing is undone.         *)
StopBetweenWrites_undone(p) ==
    /\ calls[p].op \in {"create_loan", "return_loan"}
    /\ calls[p].pc = "update_item"
    /\ response' = ResponseOf(p, "DatabaseError")
    /\ calls' = [calls EXCEPT ![p] = Idle]
    /\ loans' = IF calls[p].op = "create_loan"
                THEN SubSeq(loans, 1, Len(loans) - 1)
                ELSE [loans EXCEPT ![calls[p].arg].return_date = None]
    /\ UNCHANGED <<cable_colors, sequential, dialect, current_value, items, nextItemId, containers,
                   history, started, clock>>

StopBetweenWrites(p) ==
    /\ calls[p].op \in {"create_loan", "return_loan"}
    /\ calls[p].pc = "update_item"
    /\ response' = ResponseOf(p, "DatabaseError")
    /\ calls' = [calls EXCEPT ![p] = Idle]
    /\ UNCHANGED <<cable_colors, sequential, dialect, current_value, items, nextItemId, containers,
                   loans, history, started, clock>>

Tick ==
    /\ clock < MaxClock
    /\ clock' = clock + 1
    /\ UNCHANGED <<cable_colors, sequential, dialect, current_value, items, nextItemId, containers,
                   loans, calls, history, started, response>>

----------------------------------------------------------------------------
(* Text: a string is the sequence of its characters *)

(* The characters the model's texts are written in, in code-point order *)
CodePoints ==
    <<" ", "%", ".">> \o SubSeq(UpperDigits, 1, 10) \o <<";">>
        \o SubSeq(UpperDigits, 11, 36) \o <<"_">> \o SubSeq(LowerDigits, 11, 36)

CodePoint(ch) == CHOOSE k \in 1..Len(CodePoints) : CodePoints[k] = ch

to_ascii_lowercase(ch) ==
    IF \E k \in 11..36 : UpperDigits[k] = ch
    THEN LowerDigits[CHOOSE k \in 11..36 : UpperDigits[k] = ch]
    ELSE ch

eq_ignore_ascii_case(a, b) ==
    /\ Len(a) = Len(b)
    /\ \A i \in 1..Len(a) : to_ascii_lowercase(a[i]) = to_ascii_lowercase(b[i])

(* text LIKE pattern, % matching any run of characters and _ any one       *)
(* character, letters compared without case (ILIKE on Postgres, the        *)
(* default LIKE on SQLite)                                                 *)
RECURSIVE Like(_, _)
Like(text, pattern) ==
    IF pattern = <<>> THEN text = <<>>
    ELSE IF Head(pattern) = "%"
         THEN Like(text, Tail(pattern))
                \/ (text # <<>> /\ Like(Tail(text), pattern))
         ELSE /\ text # <<>>
              /\ \/ Head(pattern) = "_"
                 \/ to_ascii_lowercase(Head(pattern)) = to_ascii_lowercase(Head(text))
              /\ Like(Tail(text), Tail(pattern))

(* format!("%{}%", search_term) *)
SearchPattern(term) == <<"%">> \o term \o <<"%">>

(* Byte-wise comparison of two texts *)
RECURSIVE TextLeq(_, _)
TextLeq(a, b) ==
    IF a = <<>> THEN TRUE
    ELSE IF b = <<>> THEN FALSE
    ELSE IF Head(a) = Head(b) THEN TextLeq(Tail(a), Tail(b))
    ELSE CodePoint(Head(a)) < CodePoint(Head(b))

(* The orders in which a query may return the rows ids under ORDER BY:     *)
(* every arrangement that respects the relation leq, a set of pairs of     *)
(* ids; rows that compare equal both ways come in                          *)
(* any order, and the order may differ from one execution to the next.     *)
Arrangements(ids) ==
    {s \in [1..Cardinality(ids) -> ids] :
        \A i, j \in 1..Cardinality(ids) : i # j => s[i] # s[j]}
Orderings(ids, leq) ==
    {s \in Arrangements(ids) :
        \A i, j \in 1..Cardinality(ids) : i < j => <<s[i], s[j]>> \in leq}

(* LIMIT limit OFFSET offset applied to the ordered rows *)
LimitOffset(rows, limit, offset) ==
    SubSeq(rows, offset + 1,
           IF offset + limit < Len(rows) THEN offset + limit ELSE Len(rows))

----------------------------------------------------------------------------
(* list_containers *)

sort_column_passthrough(sort_by) == sort_by

sort_column(sort_by) ==
    CASE sort_by = <<"n","a","m","e">>
           -> <<"c",".","n","a","m","e">>
      [] sort_by = <<"l","o","c","a","t","i","o","n">>
           -> <<"c",".","l","o","c","a","t","i","o","n">>
      [] sort_by = <<"i","t","e","m","_","c","o","u","n","t">>
           -> <<"i","t","e","m","_","c","o","u","n","t">>
      [] sort_by = <<"c","r","e","a","t","e","d","_","a","t">>
           -> <<"c",".","c","r","e","a","t","e","d","_","a","t">>
      [] sort_by = <<"u","p","d","a","t","e","d","_","a","t">>
           -> <<"c",".","u","p","d","a","t","e","d","_","a","t">>
      [] sort_by = <<"i","s","_","d","i","s","p","o","s","e","d">>
           -> <<"c",".","i","s","_","d","i","s","p","o","s","e","d">>
      [] OTHER -> <<"c",".","c","r","e","a","t","e","d","_","a","t">>

sort_direction(sort_order) ==
    IF eq_ignore_ascii_case(sort_order, <<"a","s","c">>) THEN <<"A","S","C">> ELSE <<"D","E","S","C">>

SortByInputs ==
    {<<"n","a","m","e">>,
     <<"l","o","c","a","t","i","o","n">>,
     <<"i","t","e","m","_","c","o","u","n","t">>,
     <<"c","r","e","a","t","e","d","_","a","t">>,
     <<"u","p","d","a","t","e","d","_","a","t">>,
     <<"i","s","_","d","i","s","p","o","s","e","d">>,
     <<"N","a","m","e">>,
     <<"n","a","m","e",";">>,
     <<>>}

SortOrderInputs ==
    {<<"a","s","c">>,
     <<"A","S","C">>,
     <<"a","S","c">>,
     <<"d","e","s","c">>,
     <<"a","s","c",";">>,
     <<>>}

(* The arguments a caller passes to list_containers *)
ListContainersInputs ==
    [location_filter : {None, Some(<<"h","a","l","l">>)},
     include_disposed : BOOLEAN,
     search : {None, Some(<<"O">>)},
     sort_by : SortByInputs,
     sort_order : SortOrderInputs]

(* The statement list_containers builds: the conditions pushed after       *)
(* WHERE 1=1, each with the numbers of its placeholders ($n on Postgres,   *)
(* the n-th ? on SQLite), the ORDER BY clause, and the values bound, in    *)
(* the order of the bind calls.                                            *)
ListContainersQuery(arg) ==
    LET by_location == arg.location_filter.some
        first == IF by_location THEN 2 ELSE 1
    IN [where |->
            (IF ~arg.include_disposed
             THEN <<[cond |-> "c.is_disposed = false", at |-> <<>>]>>
             ELSE <<>>)
            \o (IF by_location
                THEN <<[cond |-> "c.location =", at |-> <<1>>]>>
                ELSE <<>>)
            \o (IF arg.search.some
                THEN <<[cond |-> "c.name/c.description/c.location LIKE",
                        at |-> <<first, first + 1, first + 2>>]>>
                ELSE <<>>),
        order_by |-> <<sort_column(arg.sort_by), sort_direction(arg.sort_order)>>,
        binds |->
            (IF by_location THEN <<arg.location_filter.v>> ELSE <<>>)
            \o (IF arg.search.some
                THEN LET search_param == SearchPattern(arg.search.v)
                     IN <<search_param, search_param, search_param>>
                ELSE <<>>)]

(* Does container c satisfy one condition of the statement? The model's    *)
(* containers store no description: the column is NULL and its LIKE is     *)
(* never true.                                                             *)
ContainerCondition(c, w, binds) ==
    CASE w.cond = "c.is_disposed = false" -> ~containers[c].is_disposed
      [] w.cond = "c.location =" -> containers[c].location = binds[w.at[1]]
      [] OTHER -> \/ Like(containers[c].name, binds[w.at[1]])
                  \/ Like(containers[c].location, binds[w.at[3]])

ContainerMatches(c, q) ==
    \A k \in 1..Len(q.where) : ContainerCondition(c, q.where[k], q.binds)

(* COUNT(i.id) over the LEFT JOIN: the items stored in c, not disposed *)
item_count(c) == Cardinality(ItemsInContainers({c}, FALSE))

ContainerKeyLeq(column, a, b) ==
    CASE column = sort_column(<<"n","a","m","e">>)
           -> TextLeq(containers[a].name, containers[b].name)
      [] column = sort_column(<<"l","o","c","a","t","i","o","n">>)
           -> TextLeq(containers[a].location, containers[b].location)
      [] column = sort_column(<<"i","t","e","m","_","c","o","u","n","t">>)
           -> item_count(a) <= item_count(b)
      [] column = sort_column(<<"u","p","d","a","t","e","d","_","a","t">>)
           -> containers[a].updated_at <= containers[b].updated_at
      [] column = sort_column(<<"i","s","_","d","i","s","p","o","s","e","d">>)
           -> containers[a].is_disposed => containers[b].is_disposed
      [] OTHER -> containers[a].created_at <= containers[b].created_at

ContainerOrdered(order_by, a, b) ==
    IF order_by[2] = <<"A","S","C">>
    THEN ContainerKeyLeq(order_by[1], a, b)
    ELSE ContainerKeyLeq(order_by[1], b, a)

(* history keeps the returns of the list calls a specification follows *)
Follow(followed, r) == IF followed THEN Append(history, r) ELSE history

(* What a list call returns: the statement it ran and the rows, by id *)
Listed(q, rows) == [status |-> "Ok", query |-> q, rows |-> rows]

ListContainers(p, inputs, followed) ==
    /\ MayStart(p)
    /\ \E arg \in inputs :
         LET q == ListContainersQuery(arg)
             ids == {c \in DOMAIN containers : ContainerMatches(c, q)}
         IN \E rows \in Orderings(ids, {<<a, b>> \in ids \X ids :
                                           ContainerOrdered(q.order_by, a, b)}) :
              /\ response' = Response("list_containers", arg,
                                      Listed(q, rows))
              /\ history' = Follow(followed, response')
    /\ started' = started + 1
    /\ UNCHANGED <<sequential, dialect, current_value, items, nextItemId,
                   containers, cable_colors, loans, calls, clock>>

----------------------------------------------------------------------------
(* The paginated lists: list_items, list_loans, list_cable_colors *)

(* let offset = ((page - 1) * per_page) as i64 *)
(* let offset = ((page - 1) * per_page) as i64, computed in u32.  A word   *)
(* has WordBits bits here.  A build without overflow checks wraps both the *)
(* subtraction and the product; a build with them panics (ListPanics).     *)
Word == 2 ^ WordBits
U32 == 0..(Word - 1)

Offset(page, per_page) == ((page - 1) * per_page) % Word

OffsetOverflows(page, per_page) ==
    page - 1 < 0 \/ (page - 1) * per_page >= Word

(* The list call of a build with overflow checks, on a page and per_page   *)
(* whose offset does not fit: the task panics before any statement is run  *)
ListPanics(p, op, inputs) ==
    /\ MayStart(p)
    /\ \E arg \in inputs :
         /\ OffsetOverflows(arg.page, arg.per_page)
         /\ response' = Response(op, arg, [status |-> "Panic"])
    /\ started' = started + 1
    /\ UNCHANGED <<sequential, dialect, current_value, items, nextItemId,
                   containers, cable_colors, loans, calls, history, clock>>

(* What a paginated list returns: the rows of the page, by id, the total   *)
(* of the count statement, and the statement that selected the page        *)
ListedPage(q, rows, total) ==
    [status |-> "Ok", query |-> q, rows |-> rows, total |-> total]

(* ORDER BY created_at DESC *)
NewestFirst(tbl, ids) ==
    Orderings(ids, {<<a, b>> \in ids \X ids :
                       tbl[a].created_at >= tbl[b].created_at})

(* where_conditions of list_items with the numbers of their placeholders,  *)
(* in the order the code pushes them                                       *)
ListItemsWhere(arg) ==
    LET n1 == IF arg.search.some THEN 5 ELSE 1
        n2 == IF arg.is_on_loan.some THEN n1 + 1 ELSE n1
        n3 == IF arg.is_disposed.some THEN n2 + 1 ELSE n2
        n4 == IF arg.container_id.some THEN n3 + 1 ELSE n3
    IN (IF arg.search.some
        THEN <<[cond |-> "name/label_id/model_number/remarks LIKE",
                at |-> <<1, 2, 3, 4>>]>>
        ELSE <<>>)
       \o (IF arg.is_on_loan.some
           THEN <<[cond |-> "is_on_loan =", at |-> <<n1>>]>> ELSE <<>>)
       \o (IF arg.is_disposed.some
           THEN <<[cond |-> "is_disposed =", at |-> <<n2>>]>> ELSE <<>>)
       \o (IF arg.container_id.some
           THEN <<[cond |-> "container_id =", at |-> <<n3>>]>> ELSE <<>>)
       \o (IF arg.storage_type.some
           THEN <<[cond |-> "storage_type =", at |-> <<n4>>]>> ELSE <<>>)

(* The values bound to the filters, in the order of the bind calls; the    *)
(* page statement and the count statement are bound alike                  *)
ListItemsBinds(arg) ==
    (IF arg.search.some
     THEN LET search_pattern == SearchPattern(arg.search.v)
          IN <<search_pattern, search_pattern, search_pattern, search_pattern>>
     ELSE <<>>)
    \o (IF arg.is_on_loan.some THEN <<arg.is_on_loan.v>> ELSE <<>>)
    \o (IF arg.is_disposed.some THEN <<arg.is_disposed.v>> ELSE <<>>)
    \o (IF arg.container_id.some THEN <<arg.container_id.v>> ELSE <<>>)
    \o (IF arg.storage_type.some THEN <<arg.storage_type.v>> ELSE <<>>)

(* The model's items store no model_number and no remarks: the columns     *)
(* are NULL and their LIKE is never true.                                  *)
ItemCondition(i, w, binds) ==
    CASE w.cond = "is_on_loan =" -> items[i].is_on_loan = binds[w.at[1]]
      [] w.cond = "is_disposed =" -> items[i].is_disposed = binds[w.at[1]]
      [] w.cond = "container_id =" ->
            /\ items[i].container_id.some
            /\ items[i].container_id.v = binds[w.at[1]]
      [] w.cond = "storage_type =" -> items[i].storage_type = binds[w.at[1]]
      [] OTHER -> \/ Like(items[i].name, binds[w.at[1]])
                  \/ Like(items[i].label_id, binds[w.at[2]])

ItemMatches_any(i, where, binds) ==
    \E k \in 1..Len(where) : ItemCondition(i, where[k], binds)

ItemMatches(i, where, binds) ==
    \A k \in 1..Len(where) : ItemCondition(i, where[k], binds)

(* SELECT ... FROM items {where} ORDER BY created_at DESC LIMIT OFFSET *)
ListItemsSelect(p, inputs) ==
    /\ MayStart(p)
    /\ \E arg \in inputs :
         LET q == [where |-> ListItemsWhere(arg), binds |-> ListItemsBinds(arg),
                   limit |-> arg.per_page,
                   offset |-> Offset(arg.page, arg.per_page)]
             ids == {i \in DOMAIN items : ItemMatches(i, q.where, q.binds)}
         IN \E rows \in NewestFirst(items, ids) :
              calls' = [calls EXCEPT ![p] =
                          [op |-> "list_items", pc |-> "count", arg |-> arg,
                           query |-> q,
                           rows |-> LimitOffset(rows, q.limit, q.offset)]]
    /\ started' = started + 1
    /\ UNCHANGED <<sequential, dialect, current_value, items, nextItemId,
                   containers, cable_colors, loans, history, response, clock>>

(* SELECT COUNT( * ) FROM items {where}, the same where_clause bound again *)
ListItemsCount(p, followed) ==
    /\ calls[p].op = "list_items" /\ calls[p].pc = "count"
    /\ LET arg == calls[p].arg
           total == Cardinality({i \in DOMAIN items :
                       ItemMatches(i, calls[p].query.where, ListItemsBinds(arg))})
       IN /\ response' = ResponseOf(p, ListedPage(calls[p].query,
                                                  calls[p].rows, total))
          /\ history' = Follow(followed, response')
    /\ calls' = [calls EXCEPT ![p] = Idle]
    /\ UNCHANGED <<sequential, dialect, current_value, items, nextItemId,
                   containers, cable_colors, loans, started, clock>>

(* where_conditions of list_loans; active_only is written into the text    *)
(* and binds nothing                                                       *)
ListLoansWhere(arg) ==
    (IF arg.item_id.some
     THEN <<[cond |-> "l.item_id =", at |-> <<1>>]>> ELSE <<>>)
    \o (IF arg.student_number.some
        THEN <<[cond |-> "l.student_number =",
                at |-> <<IF arg.item_id.some THEN 2 ELSE 1>>]>>
        ELSE <<>>)
    \o (IF arg.active_only.some
        THEN IF arg.active_only.v
             THEN <<[cond |-> "l.return_date IS NULL", at |-> <<>>]>>
             ELSE <<[cond |-> "l.return_date IS NOT NULL", at |-> <<>>]>>
        ELSE <<>>)

ListLoansBinds(arg) ==
    (IF arg.item_id.some THEN <<arg.item_id.v>> ELSE <<>>)
    \o (IF arg.student_number.some THEN <<arg.student_number.v>> ELSE <<>>)

LoanCondition(l, w, binds) ==
    CASE w.cond = "l.item_id =" -> loans[l].item_id = binds[w.at[1]]
      [] w.cond = "l.student_number =" ->
            loans[l].student_number = binds[w.at[1]]
      [] w.cond = "l.return_date IS NULL" -> ~loans[l].return_date.some
      [] OTHER -> loans[l].return_date.some

LoanMatches(l, where, binds) ==
    \A k \in 1..Len(where) : LoanCondition(l, where[k], binds)

(* FROM loans l INNER JOIN items i ON l.item_id = i.id *)
LoansJoinItems == {l \in DOMAIN loans : loans[l].item_id \in DOMAIN items}

ListLoansSelect(p, inputs) ==
    /\ MayStart(p)
    /\ \E arg \in inputs :
         LET q == [where |-> ListLoansWhere(arg), binds |-> ListLoansBinds(arg),
                   limit |-> arg.per_page,
                   offset |-> Offset(arg.page, arg.per_page)]
             ids == {l \in LoansJoinItems : LoanMatches(l, q.where, q.binds)}
         IN \E rows \in NewestFirst(loans, ids) :
              calls' = [calls EXCEPT ![p] =
                          [op |-> "list_loans", pc |-> "count", arg |-> arg,
                           query |-> q,
                           rows |-> LimitOffset(rows, q.limit, q.offset)]]
    /\ started' = started + 1
    /\ UNCHANGED <<sequential, dialect, current_value, items, nextItemId,
                   containers, cable_colors, loans, history, response, clock>>

(* The rows the count statement of list_loans counts: on SQLite a call     *)
(* with no filter runs SELECT COUNT( * ) FROM loans, without the join;     *)
(* every other call counts over the join with the where_clause.            *)
ListLoansCounted(arg) ==
    IF /\ dialect = "sqlite"
       /\ ~arg.item_id.some /\ ~arg.student_number.some /\ ~arg.active_only.some
    THEN DOMAIN loans
    ELSE {l \in LoansJoinItems :
            LoanMatches(l, ListLoansWhere(arg), ListLoansBinds(arg))}

ListLoansCount(p, followed) ==
    /\ calls[p].op = "list_loans" /\ calls[p].pc = "count"
    /\ response' = ResponseOf(p, ListedPage(calls[p].query, calls[p].rows,
                                   Cardinality(ListLoansCounted(calls[p].arg))))
    /\ history' = Follow(followed, response')
    /\ calls' = [calls EXCEPT ![p] = Idle]
    /\ UNCHANGED <<sequential, dialect, current_value, items, nextItemId,
                   containers, cable_colors, loans, started, clock>>

(* SELECT ... FROM cable_colors ORDER BY created_at DESC LIMIT OFFSET *)
ListCableColorsSelect(p, inputs) ==
    /\ MayStart(p)
    /\ \E arg \in inputs :
         LET q == [where |-> <<>>, binds |-> <<>>, limit |-> arg.per_page,
                   offset |-> Offset(arg.page, arg.per_page)]
         IN \E rows \in NewestFirst(cable_colors, DOMAIN cable_colors) :
              calls' = [calls EXCEPT ![p] =
                          [op |-> "list_cable_colors", pc |-> "count",
                           arg |-> arg, query |-> q,
                           rows |-> LimitOffset(rows, q.limit, q.offset)]]
    /\ started' = started + 1
    /\ UNCHANGED <<sequential, dialect, current_value, items, nextItemId,
                   containers, cable_colors, loans, history, response, clock>>

(* SELECT COUNT( * ) FROM cable_colors *)
ListCableColorsCount(p, followed) ==
    /\ calls[p].op = "list_cable_colors" /\ calls[p].pc = "count"
    /\ response' = ResponseOf(p, ListedPage(calls[p].query, calls[p].rows,
                                            Cardinality(DOMAIN cable_colors)))
    /\ history' = Follow(followed, response')
    /\ calls' = [calls EXCEPT ![p] = Idle]
    /\ UNCHANGED <<sequential, dialect, current_value, items, nextItemId,
                   containers, cable_colors, loans, started, clock>>

----------------------------------------------------------------------------
(* Stored data for the list operations: MaxRows items, loans and cable     *)
(* colors and MaxContainers containers as the create operations leave      *)
(* them, row k created at stamps[k]. The first item is stored in the       *)
(* first container and has MaxRows loans, the last of which is open when   *)
(* open is true; the other items are disposed when scrapped is true, and   *)
(* so are the other containers.                                            *)
Stamps == [1..MaxRows -> Times]
(* Rows created one after the other, while the clock still advances *)
Apart == [k \in 1..MaxRows |-> IF k - 1 <= MaxClock THEN k - 1 ELSE MaxClock]

ListItem(k, now, open, scrapped) ==
    IF k = 1
    THEN [NewItem([name |-> <<"b","o","l","t">>,
                   label_id |-> FormatLabel(MaxContainers + k),
                   storage_type |-> Some("container"),
                   container_id |-> Some(FormatLabel(1))], now)
            EXCEPT !.is_on_loan = open]
    ELSE [NewItem([name |-> <<"N","u","t">>,
                   label_id |-> FormatLabel(MaxContainers + k),
                   storage_type |-> None, container_id |-> None], now)
            EXCEPT !.is_disposed = scrapped]

ListLoan(k, now, open) ==
    [NewLoan([item_id |-> 1, student_number |-> "s1", remarks |-> None], now)
        EXCEPT !.return_date = IF open /\ k = MaxRows THEN None ELSE Some(now)]

ListContainer(first, scrapped) ==
    IF first
    THEN NewContainer([name |-> <<"b","o","x">>,
                       location |-> <<"h","a","l","l">>, image_url |-> None], 0)
    ELSE [NewContainer([name |-> <<"C","r","a","t","e">>,
                        location |-> <<"r","a","c","k">>, image_url |-> None], 0)
            EXCEPT !.is_disposed = scrapped]

ListData(stamps, open, scrapped) ==
    /\ dialect \in {"postgres", "sqlite"}
    /\ items = [k \in 1..MaxRows |-> ListItem(k, stamps[k], open, scrapped)]
    /\ nextItemId = MaxRows + 1
    /\ loans = [k \in 1..MaxRows |-> ListLoan(k, stamps[k], open)]
    /\ cable_colors = [k \in 1..MaxRows |->
                         NewCableColor([name |-> "red", hex_code |-> None],
                                       stamps[k])]
    /\ containers = [c \in {FormatLabel(k) : k \in 1..MaxContainers} |->
                       ListContainer(c = FormatLabel(1), scrapped)]
    /\ current_value = MaxRows + MaxContainers
    /\ calls = [p \in Procs |-> Idle]
    /\ history = <<>>
    /\ started = 0
    /\ response = NoResponse
    /\ clock = MaxClock
    /\ sequential = TRUE

----------------------------------------------------------------------------
(* Initial states *)

InitDb ==
    /\ dialect \in {"postgres", "sqlite"}
    /\ containers = <<>>
    /\ cable_colors = <<>>
    /\ loans = <<>>
    /\ calls = [p \in Procs |-> Idle]
    /\ history = <<>>
    /\ started = 0
    /\ response = NoResponse
    /\ clock = 0

(* An empty database whose counter has reached one of InitCounters *)
EmptyTables ==
    /\ InitDb
    /\ items = <<>>
    /\ nextItemId = 1
    /\ current_value \in InitCounters

(* A database holding MaxItems items as create_item leaves them *)
StockedTables ==
    /\ InitDb
    /\ items = [id \in 1..MaxItems |->
                  NewItem([name |-> "item", label_id |-> FormatLabel(id),
                           storage_type |-> None, container_id |-> None], 0)]
    /\ nextItemId = MaxItems + 1
    /\ current_value = MaxItems

(* MaxContainers containers as create_container leaves them, after some    *)
(* time, and no item or one item stored in the first container             *)
StockedContainers ==
    /\ dialect \in {"postgres", "sqlite"}
    /\ containers = [c \in {FormatLabel(k) : k \in 1..MaxContainers} |->
                       NewContainer([name |-> "box", location |-> "room",
                                     image_url |-> None], 0)]
    /\ \/ items = <<>> /\ nextItemId = 1
       \/ /\ items = <<NewItem([name |-> "item", label_id |-> FormatLabel(36),
                                storage_type |-> Some("container"),
                                container_id |-> Some(FormatLabel(1))], 0)>>
          /\ nextItemId = 2
    /\ current_value = MaxContainers
    /\ cable_colors = <<>>
    /\ loans = <<>>
    /\ calls = [p \in Procs |-> Idle]
    /\ history = <<>>
    /\ started = 0
    /\ response = NoResponse
    /\ clock = 1

(* One item, MaxContainers containers and MaxColors cable colors, as the    *)
(* create operations leave them                                            *)
StockedCatalog ==
    /\ dialect \in {"postgres", "sqlite"}
    /\ items = <<NewItem([name |-> "item", label_id |-> FormatLabel(36),
                          storage_type |-> None, container_id |-> None], 0)>>
    /\ nextItemId = 2
    /\ containers = [c \in {FormatLabel(k) : k \in 1..MaxContainers} |->
                       NewContainer([name |-> "box", location |-> "room",
                                     image_url |-> None], 0)]
    /\ current_value = MaxContainers
    /\ cable_colors = [id \in 1..MaxColors |->
                         NewCableColor([name |-> "red", hex_code |-> None], 0)]
    /\ loans = <<>>
    /\ calls = [p \in Procs |-> Idle]
    /\ history = <<>>
    /\ started = 0
    /\ response = NoResponse
    /\ clock = 0

InitLabel == EmptyTables /\ sequential = FALSE
InitContainer == StockedContainers /\ sequential = FALSE
InitContainerAlone == StockedContainers /\ sequential = TRUE
InitUpdateAlone == StockedCatalog /\ sequential = TRUE
InitLabelAlone == EmptyTables /\ sequential = TRUE
InitLoan == StockedTables /\ sequential = FALSE
InitLoanAlone == StockedTables /\ sequential = TRUE
(* Lists over rows created at any times, equal or not *)
InitPagesAlone == \E stamps \in Stamps : ListData(stamps, FALSE, FALSE)
(* Lists over rows created at different times *)
InitOffsetAlone == ListData(Apart, FALSE, FALSE)
(* Lists over containers in use or not *)
InitSortAlone == \E scrapped \in BOOLEAN : ListData(Apart, FALSE, scrapped)
(* Lists over rows that differ in what the filters test *)
InitFiltersAlone == \E open, scrapped \in BOOLEAN : ListData(Apart, open, scrapped)

----------------------------------------------------------------------------
(* The label allocator and its two callers, the tasks running concurrently *)

NextLabel ==
    \E p \in Procs :
        \/ GenerateLabelIdsBegin(p)
        \/ CreateContainerBegin(p)
        \/ SelectCounter(p)
        \/ UpdateCounter(p)
        \/ CommitCounter(p)
        \/ CommitBusy(p)
        \/ CreateContainerInsert(p)

SpecLabel == InitLabel /\ [][NextLabel]_vars

(* The same, one call at a time: no lock is contended and no COMMIT times  *)
(* out.                                                                    *)

NextLabelAlone ==
    \E p \in Procs :
        \/ GenerateLabelIdsBegin(p)
        \/ CreateContainerBegin(p)
        \/ SelectCounter(p)
        \/ UpdateCounter(p)
        \/ CommitCounter(p)
        \/ CreateContainerInsert(p)

SpecLabelAlone == InitLabelAlone /\ [][NextLabelAlone]_vars

(* Concurrent tasks again, with the creation and update of items, whose    *)
(* label_id is the caller's                                                *)

NextCatalog ==
    \/ NextLabel
    \/ \E p \in Procs :
        \/ CreateItem(p, CreateItemRequestsWith({}))
        \/ UpdateItemGetItem(p, UpdateItemRequestsWith({"name", "label_id"}))
        \/ UpdateItemUpdate(p)

SpecCatalog == InitLabel /\ [][NextCatalog]_vars

(* The loan life cycle with the item operations, concurrently and one call *)
(* at a time.                                                              *)

NextLoan ==
    \/ Tick
    \/ \E p \in Procs :
        \/ CreateLoanSelectItem(p)
        \/ CreateLoanInsert(p)
        \/ CreateLoanUpdateItem(p)
        \/ ReturnLoanSelect(p)
        \/ ReturnLoanUpdateLoan(p)
        \/ ReturnLoanUpdateItem(p)
        \/ UpdateItemGetItem(p, UpdateItemRequestsWith({"is_on_loan", "is_disposed"}))
        \/ UpdateItemUpdate(p)
        \/ DisposeItem(p)
        \/ UndisposeItem(p)
        \/ DeleteItemGetItem(p)
        \/ DeleteItemCountLoans(p)
        \/ DeleteItemDelete(p)

SpecLoan == InitLoan /\ [][NextLoan]_vars

SpecLoanAlone == InitLoanAlone /\ [][NextLoan]_vars

(* Containers and the items stored in them, the tasks running concurrently *)

NextContainer ==
    \E p \in Procs :
        \/ DeleteContainerCount(p)
        \/ DeleteContainerDelete(p)
        \/ BulkDeleteContainersCheck(p)
        \/ BulkDeleteContainersDelete(p)
        \/ BulkUpdateDisposedStatus(p)
        \/ CreateItem(p, CreateItemRequestsWith({"storage_type", "container_id"}))
        \/ DisposeItem(p)
        \/ UndisposeItem(p)
        \/ DeleteItemGetItem(p)
        \/ DeleteItemCountLoans(p)
        \/ DeleteItemDelete(p)

SpecContainer == InitContainer /\ [][NextContainer]_vars

SpecContainerAlone == InitContainerAlone /\ [][NextContainer]_vars

(* The partial updates of items, containers and cable colors, one call at  *)
(* a time                                                                  *)

NextUpdate ==
    \/ Tick
    \/ \E p \in Procs :
        \/ UpdateItemGetItem(p, UpdateItemRequestsWith({"name", "is_disposed"}))
        \/ UpdateItemUpdate(p)
        \/ UpdateContainer(p)
        \/ UpdateCableColorGet(p)
        \/ UpdateCableColorUpdate(p)

SpecUpdateAlone == InitUpdateAlone /\ [][NextUpdate]_vars

(* Loans and the deletion of items, the tasks running concurrently *)

NextLoanDelete ==
    \E p \in Procs :
        \/ CreateLoanSelectItem(p)
        \/ CreateLoanInsert(p)
        \/ CreateLoanUpdateItem(p)
        \/ ReturnLoanSelect(p)
        \/ ReturnLoanUpdateLoan(p)
        \/ ReturnLoanUpdateItem(p)
        \/ DeleteItemGetItem(p)
        \/ DeleteItemCountLoans(p)
        \/ DeleteItemDelete(p)

SpecLoanDelete == InitLoan /\ [][NextLoanDelete]_vars

(* One call at a time; a create_loan or return_loan call may stop between  *)
(* its two writes                                                          *)
NextLoanStop ==
    \E p \in Procs :
        \/ CreateLoanSelectItem(p)
        \/ CreateLoanInsert(p)
        \/ CreateLoanUpdateItem(p)
        \/ ReturnLoanSelect(p)
        \/ ReturnLoanUpdateLoan(p)
        \/ ReturnLoanUpdateItem(p)
        \/ StopBetweenWrites(p)
        \/ UpdateItemGetItem(p, UpdateItemRequestsWith({"is_on_loan"}))
        \/ UpdateItemUpdate(p)
        \/ DeleteItemGetItem(p)
        \/ DeleteItemCountLoans(p)
        \/ DeleteItemDelete(p)

SpecLoanStop == InitLoanAlone /\ [][NextLoanStop]_vars

(* update_item requests that carry both flags, set or cleared, among the   *)
(* operations that write the flags, one call at a time                     *)
FlagRequests ==
    {req \in UpdateItemRequestsWith({"is_on_loan", "is_disposed"}) :
        /\ req.is_on_loan.some
        /\ req.is_disposed = req.is_on_loan}

NextFlags ==
    \/ Tick
    \/ \E p \in Procs :
        \/ UpdateItemGetItem(p, FlagRequests)
        \/ UpdateItemUpdate(p)
        \/ CreateLoanSelectItem(p)
        \/ CreateLoanInsert(p)
        \/ CreateLoanUpdateItem(p)
        \/ ReturnLoanSelect(p)
        \/ ReturnLoanUpdateLoan(p)
        \/ ReturnLoanUpdateItem(p)
        \/ DisposeItem(p)
        \/ UndisposeItem(p)

SpecFlagsAlone == InitLoanAlone /\ [][NextFlags]_vars

(* list_containers with every sort key and direction, one caller at a time *)
SortInputs ==
    {arg \in ListContainersInputs :
        /\ arg.location_filter.some = arg.search.some
        /\ arg.include_disposed = ~arg.search.some
        /\ arg.search.some \/ arg.sort_order = <<"d","e","s","c">>}

NextSort == \E p \in Procs : ListContainers(p, SortInputs, FALSE)

SpecSortAlone == InitSortAlone /\ [][NextSort]_vars

(* Pages of the three paginated lists over unchanging data, one caller at  *)
(* a time, the returns kept in history                                     *)
Pages == 1..MaxRows
PageSizes == 1..MaxRows
NoItemFilter ==
    [search |-> None, is_on_loan |-> None, is_disposed |-> None,
     container_id |-> None, storage_type |-> None]
NoLoanFilter == [item_id |-> None, student_number |-> None, active_only |-> None]
PageInputs(filter) ==
    {filter @@ [page |-> n, per_page |-> sz] : n \in Pages, sz \in PageSizes}

NextPages ==
    \E p \in Procs :
        \/ ListItemsSelect(p, PageInputs(NoItemFilter))
        \/ ListItemsCount(p, TRUE)
        \/ ListLoansSelect(p, PageInputs(NoLoanFilter))
        \/ ListLoansCount(p, TRUE)
        \/ ListCableColorsSelect(p, PageInputs(<<>>))
        \/ ListCableColorsCount(p, TRUE)

SpecPagesAlone == InitPagesAlone /\ [][NextPages]_vars

(* The three paginated lists with every page of a word and a per_page of  *)
(* one or two rows                                                         *)
WordPageInputs(filter) ==
    {filter @@ [page |-> n, per_page |-> sz] : n \in U32, sz \in {1, 2}}

NextOffset ==
    \E p \in Procs :
        \/ ListItemsSelect(p, WordPageInputs(NoItemFilter))
        \/ ListItemsCount(p, FALSE)
        \/ ListLoansSelect(p, WordPageInputs(NoLoanFilter))
        \/ ListLoansCount(p, FALSE)
        \/ ListCableColorsSelect(p, WordPageInputs(<<>>))
        \/ ListCableColorsCount(p, FALSE)
        \/ ListPanics(p, "list_items", WordPageInputs(NoItemFilter))
        \/ ListPanics(p, "list_loans", WordPageInputs(NoLoanFilter))
        \/ ListPanics(p, "list_cable_colors", WordPageInputs(<<>>))

SpecOffsetAlone == InitOffsetAlone /\ [][NextOffset]_vars

(* The filters of list_items and list_loans, each absent or set to one     *)
(* value, on the first page with room for every row                        *)
ItemFilters ==
    [search : {None, Some(<<"O">>)},
     is_on_loan : {None, Some(TRUE)},
     is_disposed : {None, Some(FALSE)},
     container_id : {None, Some(FormatLabel(1))},
     storage_type : {None, Some("container")}]
LoanFilters ==
    [item_id : {None, Some(1)},
     student_number : {None, Some("s1")},
     active_only : FlagInputs]
FirstPage(filters) == {f @@ [page |-> 1, per_page |-> MaxRows] : f \in filters}

(* list_items and list_loans with every combination of filters, and        *)
(* delete_item, one caller at a time                                       *)
NextListing ==
    \E p \in Procs :
        \/ ListItemsSelect(p, FirstPage(ItemFilters))
        \/ ListItemsCount(p, FALSE)
        \/ ListLoansSelect(p, FirstPage(LoanFilters))
        \/ ListLoansCount(p, FALSE)
        \/ DeleteItemGetItem(p)
        \/ DeleteItemCountLoans(p)
        \/ DeleteItemDelete(p)

SpecListingAlone == InitFiltersAlone /\ [][NextListing]_vars

(* list_items and list_containers with at most two filters, on a page of   *)
(* one row or of every row, over unchanging data, one caller at a time,    *)
(* the returns kept in history                                             *)
AtMostTwo(filters) ==
    {f \in filters : Cardinality({k \in DOMAIN f : f[k].some}) <= 2}
FilterInputs ==
    {f @@ [page |-> 1, per_page |-> sz] :
        f \in {g \in AtMostTwo(ItemFilters) : ~g.container_id.some},
        sz \in {1, MaxRows}}
ContainerFilterInputs ==
    {arg \in ListContainersInputs :
        /\ ~arg.include_disposed
        /\ arg.sort_by = <<"n","a","m","e">>
        /\ arg.sort_order = <<"a","s","c">>}

NextFilters ==
    \E p \in Procs :
        \/ ListItemsSelect(p, FilterInputs)
        \/ ListItemsCount(p, TRUE)
        \/ ListContainers(p, ContainerFilterInputs, TRUE)

SpecFiltersAlone == InitFiltersAlone /\ [][NextFilters]_vars

-----
(* Reading a label code back: the value of a base-36 numeral and the       *)
(* order of codes as strings.                                              *)

UpperAlphabet == {UpperDigits[k] : k \in 1..Len(UpperDigits)}
DigitValue(ch) == (CHOOSE k \in 1..Len(UpperDigits) : UpperDigits[k] = ch) - 1

RECURSIVE CodeValue(_)
CodeValue(code) ==
    IF Len(code) = 0 THEN 0
    ELSE CodeValue(SubSeq(code, 1, Len(code) - 1)) * 36 + DigitValue(code[Len(code)])

CodeLess(a, b) ==
    \/ Len(a) < Len(b) /\ \A k \in 1..Len(a) : a[k] = b[k]
    \/ \E k \in 1..Len(a) :
          /\ k <= Len(b)
          /\ \A j \in 1..(k - 1) : a[j] = b[j]
          /\ DigitValue(a[k]) < DigitValue(b[k])

Succeeded == {i \in 1..Len(history) : history[i].result = "Ok"}
CodesOf(i) == {history[i].label_ids[k] : k \in 1..Len(history[i].label_ids)}
LastOf(s) == s[Len(s)]

----------------------------------------------------------------------------
(* C1: the label codes returned by all successful generate_label_ids calls *)
(* are pairwise distinct, and a call that commits later returns only codes *)
(* greater than every code of a call that committed earlier (history is in *)
(* commit order).                                                          *)
C1_CodesDistinctAndOrdered ==
    \A i \in Succeeded, j \in Succeeded :
        i < j => \A a \in CodesOf(i), b \in CodesOf(j) : CodeLess(a, b)

(* C2: once K generate_label_ids(1) calls, and nothing else, have all      *)
(* returned successfully from counter value c, their codes are exactly the *)
(* renderings of c+1 .. c+K and current_value is c+K.  c is the least      *)
(* value any of the calls read: the first SELECT reads the initial value.  *)
OnlySingleAllocations ==
    /\ AllIdle
    /\ Len(history) >= 2
    /\ started = Len(history)
    /\ \A i \in 1..Len(history) :
          /\ history[i].op = "generate_label_ids"
          /\ history[i].quantity = 1
          /\ history[i].result = "Ok"

FirstRead ==
    CHOOSE c \in {history[i].read : i \in 1..Len(history)} :
        \A i \in 1..Len(history) : c <= history[i].read

C2_NoDuplicateNoGap ==
    OnlySingleAllocations =>
        /\ {history[i].label_ids[1] : i \in 1..Len(history)}
              = {FormatLabel(FirstRead + k) : k \in 1..Len(history)}
        /\ Cardinality({history[i].label_ids[1] : i \in 1..Len(history)})
              = Len(history)
        /\ current_value = FirstRead + Len(history)

(* C5: no label is at the same time the label_id of an item and the id of  *)
(* a container.                                                            *)
C5_ItemAndContainerLabelsDisjoint ==
    \A id \in DOMAIN items : items[id].label_id \notin DOMAIN containers

(* C6: generate_label_ids, one call at a time.  A call fails with          *)
(* BadRequest exactly when current_value plus its quantity exceeds         *)
(* 1679615 (so generate_label_ids(1) at 1679615 fails) and succeeds        *)
(* otherwise; the step on which a call fails leaves current_value          *)
(* unchanged; the last code of a successful call that reaches 1679615 is   *)
(* ZZZZ.                                                                   *)
C6_Outcome ==
    Len(history') > Len(history) =>
        LET r == LastOf(history')
            before == IF r.result = "Ok" THEN current_value' - r.quantity
                      ELSE current_value
        IN /\ r.result = "BadRequest" <=> before + r.quantity > 1679615
           /\ r.result = "Ok" <=> before + r.quantity <= 1679615
           /\ r.result = "Ok" => current_value = before
           /\ r.result # "Ok" => current_value' = current_value
           /\ (r.result = "Ok" /\ before + r.quantity = 1679615)
                 => LastOf(r.label_ids) = <<"Z", "Z", "Z", "Z">>

C6_ExhaustionIsBadRequest == [][C6_Outcome]_vars

C6_Witness ==
    /\ \E i \in 1..Len(history) :
          /\ history[i].result = "BadRequest"
          /\ history[i].read = 1679615 /\ history[i].quantity = 1
    /\ \E i \in 1..Len(history) :
          /\ history[i].result = "Ok"
          /\ LastOf(history[i].label_ids) = <<"Z", "Z", "Z", "Z">>
    /\ current_value = 1679615

(* C7: current_value never decreases and never exceeds 1679615; it changes *)
(* only on the commit of a generate_label_ids call, which raises it by     *)
(* exactly the call's quantity.                                            *)
C7_Step ==
    /\ current_value' >= current_value
    /\ current_value' <= 1679615
    /\ current_value' # current_value =>
          /\ Len(history') = Len(history) + 1
          /\ LastOf(history').result = "Ok"
          /\ current_value' = current_value + LastOf(history').quantity

C7_CounterMonotone == [][C7_Step]_vars

(* C8: a successful generate_label_ids(quantity) call that read counter    *)
(* value c returns exactly quantity codes; the i-th is exactly 4           *)
(* characters of 0-9A-Z, is the base-36 numeral of c + i, and is smaller,  *)
(* as a string, than every later code of the call.                         *)
C8_CodesOfOneCall ==
    \A n \in Succeeded :
        LET ids == history[n].label_ids
        IN /\ Len(ids) = history[n].quantity
           /\ \A i \in 1..Len(ids) :
                 /\ Len(ids[i]) = 4
                 /\ \A k \in 1..4 : ids[i][k] \in UpperAlphabet
                 /\ CodeValue(ids[i]) = history[n].read + i
           /\ \A i \in 1..Len(ids), j \in 1..Len(ids) :
                 i < j => ids[i] # ids[j] /\ CodeLess(ids[i], ids[j])

C8_Witness ==
    \E n \in Succeeded :
        /\ history[n].quantity = MaxQuantity
        /\ history[n].read = 34
        /\ history[n].label_ids[1] = <<"0", "0", "0", "Z">>
        /\ history[n].label_ids[2] = <<"0", "0", "1", "0">>

----------------------------------------------------------------------------
(* Steps of the calls, as the claims about single calls see them *)

Returns(op) == response'.seq # response.seq /\ response'.op = op
Proceeds(p, op) == calls[p] = Idle /\ calls'[p] # Idle /\ calls'[p].op = op
LoanCallInProgress ==
    \E p \in Procs : calls[p].op \in {"create_loan", "return_loan"}

(* C3: each item has at most one loan row whose return_date is null.       *)
C3_AtMostOneActiveLoan ==
    \A id \in 1..(MaxItems + 1) : Cardinality(ActiveLoans(id)) <= 1

(* C4: whenever no create_loan or return_loan call is in progress, every   *)
(* item whose is_on_loan is true has exactly one loan row with a null      *)
(* return_date.                                                            *)
C4_OnLoanHasOneActiveLoan ==
    ~LoanCallInProgress =>
        \A id \in DOMAIN items :
            items[id].is_on_loan => Cardinality(ActiveLoans(id)) = 1

(* C9: create_loan, one call at a time.  A call that fails returns         *)
(* NotFound when the item does not exist and BadRequest when the item is   *)
(* on loan or disposed, and changes neither table; a call goes on to its   *)
(* INSERT only for an existing item that is neither on loan nor disposed   *)
(* and has no active loan (so a second create_loan with no return in       *)
(* between fails); the loans table grows only by one row with a null       *)
(* return_date for the requested item; and when the call returns Ok the    *)
(* item's is_on_loan is true and that row is the item's one active loan.   *)
C9_Failure ==
    (Returns("create_loan") /\ response'.result # "Ok") =>
        /\ loans' = loans /\ items' = items
        /\ \/ response'.arg \notin DOMAIN items /\ response'.result = "NotFound"
           \/ /\ response'.arg \in DOMAIN items
              /\ items[response'.arg].is_on_loan \/ items[response'.arg].is_disposed
              /\ response'.result = "BadRequest"

C9_Proceeds ==
    \A p \in Procs :
        Proceeds(p, "create_loan") =>
            /\ calls'[p].arg \in DOMAIN items
            /\ ~items[calls'[p].arg].is_on_loan
            /\ ~items[calls'[p].arg].is_disposed
            /\ ActiveLoans(calls'[p].arg) = {}
            /\ loans' = loans /\ items' = items

C9_Insert ==
    loans' # loans /\ Len(loans') # Len(loans) =>
        \E p \in Procs :
            /\ calls[p].op = "create_loan" /\ calls'[p].op = "create_loan"
            /\ Len(loans') = Len(loans) + 1
            /\ SubSeq(loans', 1, Len(loans)) = loans
            /\ loans'[Len(loans')].item_id = calls[p].arg
            /\ loans'[Len(loans')].return_date = None
            /\ items' = items

C9_Success ==
    (Returns("create_loan") /\ response'.result = "Ok") =>
        /\ response'.arg \in DOMAIN items'
        /\ items'[response'.arg].is_on_loan
        /\ loans' = loans
        /\ {l \in 1..Len(loans') :
               loans'[l].item_id = response'.arg /\ loans'[l].return_date = None}
             = {Len(loans')}

C9_CreateLoanAlone ==
    [][C9_Failure /\ C9_Proceeds /\ C9_Insert /\ C9_Success]_vars

(* a second create_loan on an item that is on loan has just been refused *)
C9_Witness ==
    /\ response.op = "create_loan" /\ response.result = "BadRequest"
    /\ response.arg \in DOMAIN items
    /\ items[response.arg].is_on_loan
    /\ ~items[response.arg].is_disposed
    /\ ActiveLoans(response.arg) # {}

(* C10: return_loan, one call at a time.  A call that fails returns        *)
(* NotFound when no loan has the id and BadRequest when the loan's         *)
(* return_date is set, and changes neither table; a call goes on to its    *)
(* UPDATE only for an existing loan that is not returned, with the         *)
(* request's return_date or, when absent, the current time; the UPDATE     *)
(* stores that date; and when the call returns Ok the loan is returned and *)
(* the loan's item is not on loan (so a second return_loan fails).         *)
C10_Failure ==
    (Returns("return_loan") /\ response'.result # "Ok") =>
        /\ loans' = loans /\ items' = items
        /\ \/ response'.arg \notin 1..Len(loans) /\ response'.result = "NotFound"
           \/ /\ response'.arg \in 1..Len(loans)
              /\ loans[response'.arg].return_date # None
              /\ response'.result = "BadRequest"

C10_Proceeds ==
    \A p \in Procs :
        Proceeds(p, "return_loan") =>
            /\ calls'[p].arg \in 1..Len(loans)
            /\ loans[calls'[p].arg].return_date = None
            /\ calls'[p].return_date =
                  (IF calls'[p].req.return_date = None THEN clock
                   ELSE calls'[p].req.return_date.v)
            /\ loans' = loans /\ items' = items

C10_Stamp ==
    \A p \in Procs :
        (calls[p].op = "return_loan" /\ calls[p].pc = "update_loan"
            /\ calls'[p] # calls[p]) =>
            /\ loans'[calls[p].arg].return_date = Some(calls[p].return_date)
            /\ \A l \in 1..Len(loans) : l # calls[p].arg => loans'[l] = loans[l]
            /\ Len(loans') = Len(loans)

C10_Success ==
    (Returns("return_loan") /\ response'.result = "Ok") =>
        /\ loans' = loans
        /\ loans[response'.arg].return_date # None
        /\ \A id \in DOMAIN items' :
              id = loans[response'.arg].item_id => ~items'[id].is_on_loan

C10_ReturnLoanAlone ==
    [][C10_Failure /\ C10_Proceeds /\ C10_Stamp /\ C10_Success]_vars

(* a second return_loan on a returned loan has just been refused *)
C10_Witness ==
    /\ response.op = "return_loan" /\ response.result = "BadRequest"
    /\ response.arg \in 1..Len(loans)
    /\ loans[response.arg].return_date # None
    /\ loans[response.arg].item_id \in DOMAIN items
    /\ ~items[loans[response.arg].item_id].is_on_loan

----------------------------------------------------------------------------
(* C11: delete_item.  A call fails with BadRequest, the items and loans    *)
(* left as they are, exactly on an item that is on loan (first check) or   *)
(* that has a loan row with a null return_date (second check, reached only *)
(* when the item is not on loan); it fails with NotFound for a missing     *)
(* item; a call that passes both checks removes the item and nothing else. *)
C11_HasOpenLoan(id) ==
    \E l \in 1..Len(loans) : loans[l].item_id = id /\ loans[l].return_date = None

C11_Failure ==
    (Returns("delete_item") /\ response'.result # "Ok") =>
        /\ items' = items /\ loans' = loans
        /\ \/ response'.result = "NotFound" /\ response'.arg \notin DOMAIN items
           \/ /\ response'.result = "BadRequest"
              /\ \/ response'.arg \in DOMAIN items /\ items[response'.arg].is_on_loan
                 \/ C11_HasOpenLoan(response'.arg)

C11_Passes ==
    \A p \in Procs :
        /\ Proceeds(p, "delete_item") =>
              /\ calls'[p].arg \in DOMAIN items
              /\ ~items[calls'[p].arg].is_on_loan
              /\ items' = items /\ loans' = loans
        /\ (calls[p].op = "delete_item" /\ calls[p].pc = "count"
              /\ calls'[p].op = "delete_item" /\ calls'[p].pc = "delete") =>
              /\ ~C11_HasOpenLoan(calls[p].arg)
              /\ items' = items /\ loans' = loans

C11_Removes ==
    (Returns("delete_item") /\ response'.result = "Ok") =>
        /\ response'.arg \in DOMAIN items
        /\ DOMAIN items' = DOMAIN items \ {response'.arg}
        /\ \A id \in DOMAIN items' : items'[id] = items[id]
        /\ loans' = loans

C11_DeleteItemGuards == [][C11_Failure /\ C11_Passes /\ C11_Removes]_vars

(* delete_item has just been refused for an item that is not on loan but   *)
(* has a loan that was not returned                                        *)
C11_Witness ==
    /\ response.op = "delete_item" /\ response.result = "BadRequest"
    /\ response.arg \in DOMAIN items
    /\ ~items[response.arg].is_on_loan
    /\ C11_HasOpenLoan(response.arg)

----------------------------------------------------------------------------
(* Items stored in a container, as the claims about containers see them *)

StoredIn(tbl, c) ==
    {i \in DOMAIN tbl :
        tbl[i].container_id = Some(c) /\ tbl[i].storage_type = "container"}
LiveIn(tbl, c) == {i \in StoredIn(tbl, c) : ~tbl[i].is_disposed}

(* C12: delete_container(C), one call at a time.  The call returns Ok      *)
(* only if no item that is not disposed is stored in C, and then C and     *)
(* nothing else is removed; a call that fails leaves the containers as     *)
(* they are; a call on an existing container in which no item is stored    *)
(* (none ever was, or they have been deleted) does not fail.               *)
C12_Refused ==
    (Returns("delete_container") /\ response'.result # "Ok") =>
        /\ containers' = containers
        /\ items' = items
        /\ response'.arg \in DOMAIN containers => StoredIn(items, response'.arg) # {}

C12_Deleted ==
    (Returns("delete_container") /\ response'.result = "Ok") =>
        /\ LiveIn(items, response'.arg) = {}
        /\ response'.arg \in DOMAIN containers
        /\ DOMAIN containers' = DOMAIN containers \ {response'.arg}
        /\ \A c \in DOMAIN containers' : containers'[c] = containers[c]

C12_Started ==
    \A p \in Procs :
        Proceeds(p, "delete_container") =>
            /\ LiveIn(items, calls'[p].arg) = {}
            /\ containers' = containers /\ items' = items

C12_DeleteContainerGuard == [][C12_Refused /\ C12_Deleted /\ C12_Started]_vars

(* delete_container has just been refused for an existing container that  *)
(* holds an item that is not disposed                                      *)
C12_Witness ==
    /\ response.op = "delete_container" /\ response.result = "BadRequest"
    /\ response.arg \in DOMAIN containers
    /\ LiveIn(items, response.arg) # {}

(* C13: bulk_delete_containers(ids) is all-or-nothing and its guard and   *)
(* delete are atomic.  A call that fails returns BadRequest, some          *)
(* container of the batch holds an item that is not disposed, and no       *)
(* container is deleted; a call that returns Ok has deleted exactly the    *)
(* containers of the batch, and at that moment no item that is not         *)
(* disposed is stored in any of them, whatever was interleaved.            *)
C13_Rejected ==
    (Returns("bulk_delete_containers") /\ response'.result # "Ok") =>
        /\ response'.result = "BadRequest"
        /\ containers' = containers
        /\ \E c \in response'.arg : LiveIn(items, c) # {}

C13_AllDeleted ==
    (Returns("bulk_delete_containers") /\ response'.result = "Ok") =>
        /\ DOMAIN containers' = DOMAIN containers \ response'.arg
        /\ \A c \in DOMAIN containers' : containers'[c] = containers[c]

C13_Atomic ==
    (Returns("bulk_delete_containers") /\ response'.result = "Ok") =>
        \A c \in response'.arg : LiveIn(items', c) = {}

C13_BulkDeleteAllOrNothing ==
    [][C13_Rejected /\ C13_AllDeleted /\ C13_Atomic]_vars

(* C14: bulk_update_disposed_status(ids, is_disposed) on a batch in which  *)
(* some container holds an item that is not disposed is rejected, and no   *)
(* container's is_disposed or updated_at changes.                          *)
C14_Step ==
    (/\ Returns("bulk_update_disposed_status")
     /\ \E c \in response'.arg : LiveIn(items, c) # {}) =>
        /\ response'.result # "Ok"
        /\ containers' = containers

C14_BulkDisposeGuarded == [][C14_Step]_vars

----------------------------------------------------------------------------
(* The partial-update law for one row: after update(id, {field: v}) the    *)
(* field is v, every other field but updated_at is as before, and          *)
(* updated_at has not gone back and is greater whenever the clock has      *)
(* moved on since it was written.  optional names the fields whose column  *)
(* holds an Option.                                                        *)
OneField(req) == Cardinality(Supplied(req)) = 1

PartialUpdateLaw(old, new, req, optional, now) ==
    /\ \A f \in Supplied(req) :
          new[f] = (IF f \in optional THEN req[f] ELSE req[f].v)
    /\ \A f \in DOMAIN old \ (Supplied(req) \cup {"updated_at"}) : new[f] = old[f]
    /\ new.updated_at >= old.updated_at
    /\ now > old.updated_at => new.updated_at > old.updated_at

(* C15: a successful update_item, update_container or update_cable_color   *)
(* with one field supplied obeys the partial-update law.                   *)
C15_Item ==
    \A p \in Procs :
        (/\ calls[p].op = "update_item" /\ calls'[p] = Idle
         /\ response'.result = "Ok" /\ OneField(calls[p].req)) =>
            PartialUpdateLaw(items[calls[p].arg], items'[calls[p].arg],
                             calls[p].req, {"container_id"}, calls[p].now)

C15_Container ==
    (/\ Returns("update_container") /\ response'.result = "Ok"
     /\ OneField(response'.arg.req)) =>
        PartialUpdateLaw(containers[response'.arg.id], containers'[response'.arg.id],
                         response'.arg.req, {"image_url"}, clock)

C15_CableColor ==
    \A p \in Procs :
        (/\ calls[p].op = "update_cable_color" /\ calls'[p] = Idle
         /\ response'.result = "Ok" /\ OneField(calls[p].req)) =>
            PartialUpdateLaw(cable_colors[calls[p].arg], cable_colors'[calls[p].arg],
                             calls[p].req, {"hex_code"}, calls[p].now)

C15_PartialUpdate == [][C15_Item /\ C15_Container /\ C15_CableColor]_vars

(* C16: update_item, update_container and update_cable_color with no       *)
(* field supplied fail with BadRequest and leave the stored row, its       *)
(* updated_at included, as it is.                                          *)
C16_Item ==
    \A p \in Procs :
        (/\ calls[p].op = "update_item" /\ calls'[p] = Idle
         /\ Supplied(calls[p].req) = {}) =>
            response'.result = "BadRequest" /\ items' = items

C16_Container ==
    (Returns("update_container") /\ Supplied(response'.arg.req) = {}) =>
        response'.result = "BadRequest" /\ containers' = containers

C16_CableColor ==
    \A p \in Procs :
        (/\ calls[p].op = "update_cable_color" /\ calls'[p] = Idle
         /\ Supplied(calls[p].req) = {}) =>
            response'.result = "BadRequest" /\ cable_colors' = cable_colors

C16_EmptyUpdateRefused == [][C16_Item /\ C16_Container /\ C16_CableColor]_vars


----------------------------------------------------------------------------
(* C17: for every sort_by and sort_order passed to list_containers the     *)
(* ORDER BY clause names one of the six allow-listed columns and ASC or    *)
(* DESC: an unrecognized sort_by yields created_at, the direction is ASC   *)
(* exactly when sort_order spells asc in any ASCII case, and the text of   *)
(* the statement holds no caller-supplied text (the location and the       *)
(* search term are bound), on both dialects.                               *)
SortKeys ==
    {<<"n","a","m","e">>,
     <<"l","o","c","a","t","i","o","n">>,
     <<"i","t","e","m","_","c","o","u","n","t">>,
     <<"c","r","e","a","t","e","d","_","a","t">>,
     <<"u","p","d","a","t","e","d","_","a","t">>,
     <<"i","s","_","d","i","s","p","o","s","e","d">>}
AllowListedColumns ==
    {<<"c",".","n","a","m","e">>,
     <<"c",".","l","o","c","a","t","i","o","n">>,
     <<"i","t","e","m","_","c","o","u","n","t">>,
     <<"c",".","c","r","e","a","t","e","d","_","a","t">>,
     <<"c",".","u","p","d","a","t","e","d","_","a","t">>,
     <<"c",".","i","s","_","d","i","s","p","o","s","e","d">>}
AscSpellings ==
    {<<a, s, c>> : a \in {"a", "A"}, s \in {"s", "S"}, c \in {"c", "C"}}
StatementConditions ==
    {"c.is_disposed = false", "c.location =",
     "c.name/c.description/c.location LIKE"}

C17_OrderByAllowListed ==
    response.op = "list_containers" =>
        LET q == response.result.query
            arg == response.arg
        IN /\ q.order_by[1] \in AllowListedColumns
           /\ q.order_by[2] \in {<<"A","S","C">>, <<"D","E","S","C">>}
           /\ arg.sort_by \notin SortKeys
                => q.order_by[1] = <<"c",".","c","r","e","a","t","e","d","_","a","t">>
           /\ q.order_by[2] = <<"A","S","C">> <=> arg.sort_order \in AscSpellings
           /\ \A k \in 1..Len(q.where) :
                /\ q.where[k].cond \in StatementConditions
                /\ \A n \in 1..Len(q.where[k].at) :
                     q.where[k].at[n] \in 1..Len(q.binds)

C17_Witness ==
    /\ response.op = "list_containers"
    /\ dialect = "sqlite"
    /\ response.arg.sort_by = <<"n","a","m","e",";">>
    /\ response.arg.sort_order = <<"a","S","c">>
    /\ response.arg.search.some
    /\ Len(response.result.rows) > 0

----------------------------------------------------------------------------
(* C18: over unchanging data of N = n*p rows, the pages 1..n of size p of  *)
(* list_items, list_loans and list_cable_colors, put one after the other,  *)
(* hold every one of the N rows exactly once, newest first, also when      *)
(* several rows have the same created_at.                                  *)
PagedLists == {"list_items", "list_loans", "list_cable_colors"}
TableOf(op) ==
    CASE op = "list_items" -> items
      [] op = "list_loans" -> loans
      [] OTHER -> cable_colors

(* The ways to pick from history one return of each page 1..n of size p *)
Scans(op, p, n) ==
    {f \in [1..n -> 1..Len(history)] :
        \A j \in 1..n : /\ history[f[j]].op = op
                        /\ history[f[j]].arg.page = j
                        /\ history[f[j]].arg.per_page = p}

RECURSIVE Concatenated(_, _)
Concatenated(f, n) ==
    IF n = 0 THEN <<>>
    ELSE Concatenated(f, n - 1) \o history[f[n]].result.rows

EveryRowOnceNewestFirst(all, tbl) ==
    /\ Len(all) = Cardinality(DOMAIN tbl)
    /\ {all[i] : i \in 1..Len(all)} = DOMAIN tbl
    /\ \A i, j \in 1..Len(all) :
         i < j => tbl[all[i]].created_at >= tbl[all[j]].created_at

C18_PagesCoverEveryRowOnce ==
    \A op \in PagedLists : \A p \in PageSizes :
        LET N == Cardinality(DOMAIN TableOf(op))
        IN N % p = 0 =>
             \A f \in Scans(op, p, N \div p) :
                EveryRowOnceNewestFirst(Concatenated(f, N \div p), TableOf(op))

----------------------------------------------------------------------------
(* C19: for every combination of filters and on both dialects, the total   *)
(* of list_items and of list_loans is the number of rows the page          *)
(* statement selects before LIMIT and OFFSET: the rows of items, or of     *)
(* loans joined to items, that satisfy the conditions of the page          *)
(* statement; a loan whose item no longer exists is in neither.            *)
C19_Items ==
    Returns("list_items") =>
        response'.result.total =
            Cardinality({i \in DOMAIN items :
                ItemMatches(i, response'.result.query.where,
                            response'.result.query.binds)})

C19_Loans ==
    Returns("list_loans") =>
        response'.result.total =
            Cardinality({l \in DOMAIN loans :
                /\ loans[l].item_id \in DOMAIN items
                /\ LoanMatches(l, response'.result.query.where,
                               response'.result.query.binds)})

C19_TotalCountsPageRows == [][C19_Items /\ C19_Loans]_vars

----------------------------------------------------------------------------
(* C20: for two filters a and b of list_items or list_containers, the ids  *)
(* listed under both filters are those listed under a and also under b,    *)
(* the other arguments (page and per_page, or include_disposed and the     *)
(* sort) being the same in the three calls and the data unchanged.         *)
FilterFields(op) ==
    IF op = "list_items"
    THEN {"search", "is_on_loan", "is_disposed", "container_id", "storage_type"}
    ELSE {"location_filter", "search"}
FiltersOf(h) == {f \in FilterFields(h.op) : h.arg[f].some}
IdsOf(h) == {h.result.rows[n] : n \in 1..Len(h.result.rows)}

(* history[k] lists under two filters, history[i] and history[j] under    *)
(* one of them each, with the same values and the same other arguments     *)
Conjoined(i, j, k) ==
    LET a == history[i]
        b == history[j]
        ab == history[k]
    IN /\ ab.op \in {"list_items", "list_containers"}
       /\ a.op = ab.op /\ b.op = ab.op
       /\ Cardinality(FiltersOf(a)) = 1 /\ Cardinality(FiltersOf(b)) = 1
       /\ FiltersOf(a) # FiltersOf(b)
       /\ FiltersOf(ab) = FiltersOf(a) \cup FiltersOf(b)
       /\ \A f \in FiltersOf(a) : ab.arg[f] = a.arg[f]
       /\ \A f \in FiltersOf(b) : ab.arg[f] = b.arg[f]
       /\ \A f \in DOMAIN ab.arg \ FilterFields(ab.op) :
            a.arg[f] = ab.arg[f] /\ b.arg[f] = ab.arg[f]

C20_FilterConjunction ==
    \A i, j, k \in 1..Len(history) :
        Conjoined(i, j, k) =>
            IdsOf(history[k]) = IdsOf(history[i]) \cap IdsOf(history[j])

(* C20 as amended: the same, for list_items only when neither of the two   *)
(* single-filter calls is cut short by LIMIT and OFFSET (page 1 with       *)
(* per_page no less than its total).                                       *)
Uncut(h) ==
    h.op = "list_items" => h.arg.page = 1 /\ h.result.total <= h.arg.per_page

C20_FilterConjunctionUncut ==
    \A i, j, k \in 1..Len(history) :
        Conjoined(i, j, k) /\ Uncut(history[i]) /\ Uncut(history[j]) =>
            IdsOf(history[k]) = IdsOf(history[i]) \cap IdsOf(history[j])

C20_Witness ==
    \E i, j, k \in 1..Len(history) :
        /\ Conjoined(i, j, k) /\ Uncut(history[i]) /\ Uncut(history[j])
        /\ history[k].op = "list_items"
        /\ IdsOf(history[k]) # {}
        /\ IdsOf(history[i]) # IdsOf(history[j])

----------------------------------------------------------------------------
(* C21: dispose_item sets is_disposed to true and undispose_item to false, *)
(* both stamp updated_at and leave every other field of the item, every    *)
(* other item and every loan row as they were; neither looks at the loans, *)
(* so an item on loan is disposed all the same; for an id that is not      *)
(* stored both return NotFound and change nothing.                         *)
C21_Flag(op) == op = "dispose_item"

C21_Outcome(op) ==
    Returns(op) =>
        LET id == response'.arg
        IN /\ loans' = loans
           /\ IF id \in DOMAIN items
              THEN /\ response'.result = "Ok"
                   /\ DOMAIN items' = DOMAIN items
                   /\ items'[id].is_disposed = C21_Flag(op)
                   /\ items'[id].updated_at = clock
                   /\ \A f \in DOMAIN items[id] \ {"is_disposed", "updated_at"} :
                        items'[id][f] = items[id][f]
                   /\ \A other \in DOMAIN items \ {id} : items'[other] = items[other]
              ELSE /\ response'.result = "NotFound"
                   /\ items' = items

C21_DisposeFlipsOnlyTheFlag ==
    [][C21_Outcome("dispose_item") /\ C21_Outcome("undispose_item")]_vars

C21_Witness ==
    /\ response.op = "dispose_item"
    /\ response.result = "Ok"
    /\ response.arg \in DOMAIN items
    /\ items[response.arg].is_on_loan
    /\ items[response.arg].is_disposed
    /\ ActiveLoans(response.arg) # {}

----------------------------------------------------------------------------
(* C22: when the label space is exhausted, the BadRequest of               *)
(* generate_label_ids reaches the caller as BadRequest: the reply of the   *)
(* generate_labels handler is BadRequest, create_container returns         *)
(* BadRequest, and the failed call writes nothing and allocates no second  *)
(* time (its request is answered by that one refusal).                     *)
C22_Refuses(op) ==
    /\ Returns(op)
    /\ response'.result = "BadRequest"

C22_OneRefusal ==
    /\ current_value' = current_value
    /\ containers' = containers
    /\ Len(history') = Len(history) + 1
    /\ LastOf(history').result = "BadRequest"
    /\ LastOf(history').label_ids = <<>>
    /\ ExceedsLabelSpace(LastOf(history').read, LastOf(history').quantity)

C22_ExhaustionReachesCallerAsBadRequest ==
    [][/\ C22_Refuses("generate_label_ids") =>
             C22_OneRefusal /\ GenerateLabelsReply' = "BadRequest"
       /\ C22_Refuses("create_container") => C22_OneRefusal]_vars

----------------------------------------------------------------------------
(* C23: a loan's return_date, once set, is never set back to null nor      *)
(* overwritten by any step, and of the return_loan calls on one loan that  *)
(* overlap at most one succeeds: when one of them returns Ok, no other     *)
(* call on the same loan is past its "already returned" check.             *)
C23_ReturnDateKept ==
    \A l \in 1..Len(loans) :
        loans[l].return_date.some =>
            /\ l \in 1..Len(loans')
            /\ loans'[l].return_date = loans[l].return_date

C23_Returning(after, l) ==
    {q \in Procs : after[q].op = "return_loan" /\ after[q].arg = l}

C23_OneSucceeds ==
    Returns("return_loan") /\ response'.result = "Ok" =>
        C23_Returning(calls', response'.arg) = {}

C23_ReturnedOnce == [][C23_ReturnDateKept /\ C23_OneSucceeds]_vars

----------------------------------------------------------------------------
(* C24: create_loan and return_loan write the loan row and then the item's *)
(* flag as separate statements with nothing undone.  As claimed: whenever  *)
(* a call stops between the two, the state reached has is_on_loan          *)
(* disagreeing with the loan table (an active loan with is_on_loan false   *)
(* after create_loan, no active loan with is_on_loan true after            *)
(* return_loan), and a disagreement lasts until a create_loan or           *)
(* return_loan call writes for the same item.                              *)
C24_Active(lns, i) ==
    {l \in 1..Len(lns) : lns[l].item_id = i /\ ~lns[l].return_date.some}

C24_Disagree(tbl, lns, i) ==
    /\ i \in DOMAIN tbl
    /\ tbl[i].is_on_loan # (C24_Active(lns, i) # {})

C24_Stops(p, op) ==
    /\ calls[p].op = op
    /\ calls[p].pc = "update_item"
    /\ calls'[p] = Idle
    /\ response'.result = "DatabaseError"

C24_ItemOf(c) == IF c.op = "create_loan" THEN c.arg ELSE c.item_id

C24_WritesFor(i) ==
    \E p \in Procs :
        /\ calls[p].op \in {"create_loan", "return_loan"}
        /\ calls[p].pc \in {"insert", "update_loan", "update_item"}
        /\ C24_ItemOf(calls[p]) = i
        /\ calls'[p] # calls[p]
        /\ <<items, loans>>' # <<items, loans>>

C24_Lasts ==
    \A i \in DOMAIN items :
        C24_Disagree(items, loans, i) =>
            C24_Disagree(items', loans', i) \/ C24_WritesFor(i)

C24_NothingUndone ==
    \A p \in Procs :
        /\ C24_Stops(p, "create_loan") =>
              /\ <<items, loans>>' = <<items, loans>>
              /\ calls[p].loan_id \in C24_Active(loans', calls[p].arg)
              /\ ~items'[calls[p].arg].is_on_loan
        /\ C24_Stops(p, "return_loan") =>
              /\ <<items, loans>>' = <<items, loans>>
              /\ loans'[calls[p].arg].return_date.some

C24_StopAlwaysDisagrees ==
    [][/\ C24_NothingUndone
       /\ C24_Lasts
       /\ \A p \in Procs :
            C24_Stops(p, "return_loan") =>
                /\ C24_Active(loans', calls[p].item_id) = {}
                /\ items'[calls[p].item_id].is_on_loan]_vars

(* C24 as amended: a create_loan that stops between its writes leaves the  *)
(* loan it inserted active and is_on_loan false; a return_loan that stops  *)
(* leaves the loan returned and is_on_loan as it was, so that an item      *)
(* whose flag was set and whose only active loan this was is left flagged  *)
(* with no active loan; nothing is undone, and a disagreement lasts until  *)
(* a create_loan or return_loan call writes for the same item.             *)
C24_StopKeepsFirstWrite ==
    [][/\ C24_NothingUndone
       /\ C24_Lasts
       /\ \A p \in Procs :
            C24_Stops(p, "return_loan") =>
                LET i == calls[p].item_id
                IN (i \in DOMAIN items /\ items[i].is_on_loan
                        /\ C24_Active(loans, i) = {})
                     => /\ items'[i].is_on_loan
                        /\ C24_Active(loans', i) = {}]_vars

C24_Witness ==
    /\ response.op = "return_loan"
    /\ response.result = "DatabaseError"
    /\ AllIdle
    /\ LET i == loans[response.arg].item_id
       IN /\ i \in DOMAIN items
          /\ items[i].is_on_loan
          /\ C24_Active(loans, i) = {}

----------------------------------------------------------------------------
(* C25: delete_container decides alike on both dialects: whenever a call   *)
(* is refused because the container holds items, the query of the other    *)
(* dialect finds items in the same tables too, and whenever a call goes on *)
(* to the DELETE, the query of the other dialect finds none either; a      *)
(* container that only disposed items refer to is included.                *)
C25_Counted(d, id) == ItemsInContainers({id}, d = "postgres")

C25_Refuses(id) ==
    /\ Returns("delete_container")
    /\ response'.arg = id
    /\ response'.result = "BadRequest"

C25_GoesOn(id) ==
    \E p \in Procs :
        /\ calls[p] = Idle
        /\ calls'[p].op = "delete_container"
        /\ calls'[p].arg = id

C25_SameOnBothDialects ==
    [][\A id \in ContainerIds :
          /\ C25_Refuses(id) =>
                \A d \in {"postgres", "sqlite"} : C25_Counted(d, id) # {}
          /\ C25_GoesOn(id) =>
                \A d \in {"postgres", "sqlite"} : C25_Counted(d, id) = {}]_vars

----------------------------------------------------------------------------
(* C26: in every update_container call that supplies some field, the k-th  *)
(* bound value belongs to the column of the k-th placeholder of the SET    *)
(* list, on both dialects, so that for an existing container each supplied *)
(* value is stored in its own column, updated_at gets the timestamp and    *)
(* the row is the one named by id.                                         *)
C26_Stored(id, req) ==
    /\ response'.result = "Ok"
    /\ \A f \in Supplied(req) :
          containers'[id][f] = IF f = "image_url" THEN req[f] ELSE req[f].v
    /\ \A f \in {"name", "location", "image_url", "is_disposed"} \ Supplied(req) :
          containers'[id][f] = containers[id][f]
    /\ containers'[id].updated_at = clock
    /\ \A other \in DOMAIN containers \ {id} : containers'[other] = containers[other]

C26_BindsFollowPlaceholders ==
    [][Returns("update_container") =>
         LET id == response'.arg.id
             req == response'.arg.req
         IN Supplied(req) # {} =>
              /\ BindList(dialect, Supplied(req)) = SetList(Supplied(req))
              /\ id \in DOMAIN containers => C26_Stored(id, req)]_vars

----------------------------------------------------------------------------
(* C27: for every page and per_page the handlers accept, the offset that   *)
(* list_items, list_loans and list_cable_colors send is (page - 1) *       *)
(* per_page as a mathematical integer: no call panics and no offset is a   *)
(* wrapped value, page 0 and large products included.                      *)
C27_Lists == {"list_items", "list_loans", "list_cable_colors"}

C27_Exact(arg, offset) == offset = (arg.page - 1) * arg.per_page

C27_OffsetIsExact ==
    /\ \A p \in Procs :
          calls[p].op \in C27_Lists =>
              C27_Exact(calls[p].arg, calls[p].query.offset)
    /\ response.op \in C27_Lists =>
          /\ response.result.status = "Ok"
          /\ C27_Exact(response.arg, response.result.query.offset)

----------------------------------------------------------------------------
(* C28: update_item never changes an item's is_on_loan or is_disposed,     *)
(* whatever its request carries; is_on_loan is changed only by the step of *)
(* create_loan or return_loan that returns, is_disposed only by            *)
(* dispose_item or undispose_item.                                         *)
C28_Changed(i, flag) ==
    /\ i \in DOMAIN items'
    /\ items'[i][flag] # items[i][flag]

C28_UpdateItemSteps ==
    \E p \in Procs : calls[p].op = "update_item" /\ calls'[p] # calls[p]

C28_Step ==
    \A i \in DOMAIN items :
        /\ C28_Changed(i, "is_on_loan") =>
              /\ Returns("create_loan") \/ Returns("return_loan")
              /\ response'.result = "Ok"
        /\ C28_Changed(i, "is_disposed") =>
              /\ Returns("dispose_item") \/ Returns("undispose_item")
              /\ response'.arg = i
        /\ C28_UpdateItemSteps =>
              ~C28_Changed(i, "is_on_loan") /\ ~C28_Changed(i, "is_disposed")

C28_FlagsHaveTheirOwnWriters == [][C28_Step]_vars

(* update_item has returned Ok for a request carrying both flags with one  *)
(* value, and the item's flags differ from each other                      *)
C28_Witness ==
    /\ response.op = "update_item"
    /\ response.result = "Ok"
    /\ response.arg \in DOMAIN items
    /\ items[response.arg].is_on_loan
    /\ ~items[response.arg].is_disposed

----------------------------------------------------------------------------
(* C29: under every interleaving of delete_item, create_loan and           *)
(* return_loan, each loan row whose return_date is null refers to an item  *)
(* that is still stored.                                                   *)
C29_ActiveLoanHasItem ==
    \A l \in 1..Len(loans) :
        ~loans[l].return_date.some => loans[l].item_id \in DOMAIN items

----------------------------------------------------------------------------
(* C30: in every state reached by create_item, dispose_item,               *)
(* undispose_item, delete_item, delete_container, bulk_delete_containers   *)
(* and bulk_update_disposed_status, each item with storage_type            *)
(* 'container' that is not disposed has a container_id, and it is the id   *)
(* of a stored container.                                                  *)
C30_LiveItemsHaveTheirContainer ==
    \A i \in DOMAIN items :
        (items[i].storage_type = "container" /\ ~items[i].is_disposed) =>
            /\ items[i].container_id.some
            /\ items[i].container_id.v \in DOMAIN containers
====
